---- MODULE Spec2Model ----
(***************************************************************************)
(* A model of the immediate-mode engine of microui-rs: the Context object  *)
(* of microui/src/lib.rs, its draw-command buffer, container pool, layout  *)
(* stack and hover/focus resolution, driven by an application that         *)
(* declares windows and widgets frame after frame.                         *)
(*                                                                         *)
(* The Context is one record, ctx, whose fields are the fields of the      *)
(* struct.  Every method of Context is an operator from a Context (and the *)
(* method's arguments) to the Context after the call, so that a method     *)
(* that calls other methods is the composition of their operators.  Rust   *)
(* indices are 0-based and are kept 0-based in the data (Jump targets,     *)
(* head, tail, container indices); At and Put convert.  Option<T> is the   *)
(* empty set (None) or a singleton (Some).  A panic stops the program: it  *)
(* is recorded in the field panic and every later call is skipped.  The    *)
(* statements of a method are operators of their own, applied one to the   *)
(* result of the other in the order of the code.                           *)
(***************************************************************************)
EXTENDS Integers, Sequences, FiniteSets, TLC

VARIABLES
    ctx,        \* the Context
    phase,      \* where the main loop is: "input", "frame", "ended", "panic", "hang"
    calls,      \* the number of calls made on the Context in this frame
    last,       \* the last call made on the Context and its arguments
    pressed,    \* the buttons input_mouse_down was called for since the last end()
    delivered,  \* what handle_commands handed to the CommandHandler, in order
    drained,    \* the command list handle_commands walked
    declared,   \* the widgets updated and the popups opened in this frame:
                \* identifier and rectangle
    focus0,     \* the focused identifier when begin() was called
    updated0,   \* whether the focus was marked as updated when begin() was called
    blocks,     \* the blocks begun and not ended in this frame, innermost last,
                \* each with the depths of the stacks before it was begun
    buf         \* a text buffer of the application (a ConstStr): its bytes,
                \* what the last call on it returned, and its bytes before
                \* that call

vars == <<ctx, phase, calls, last, pressed, delivered, drained, declared, focus0,
          updated0, blocks, buf>>

\* ------------------------------------------------------------------------
\* Capacities (lib.rs:18-28).  The command list and the container pool are
\* scaled down so that exhaustion is reachable; the stacks keep their size.
\* ------------------------------------------------------------------------
COMMAND_LIST_SIZE == 16
CONTAINER_POOL_SIZE == 3
ROOT_LIST_SIZE == 32
CONTAINER_STACK_SIZE == 32
CLIP_STACK_SIZE == 32
ID_STACK_SIZE == 32
LAYOUT_STACK_SIZE == 16
MAX_WIDTHS == 16

\* Bounds of the exploration of SpecDraw: frames, and calls in one frame.
DrawMaxFrames == 2
DrawMaxCalls == 7
InputMaxFrames == 3
WindowMaxFrames == 2
WindowMaxCalls == 8
PoolMaxFrames == 2
PoolMaxCalls == 7
PopupMaxFrames == 2
PopupMaxCalls == 4
TreeMaxFrames == 2
TreeMaxCalls == 3
EventsMaxFrames == 2
ScrollMaxFrames == 3
ScrollMaxCalls == 4
LayoutMaxFrames == 2
LayoutMaxCalls == 6
IdMaxFrames == 2
IdMaxCalls == 4
StrCapacity == 5
SortMaxFrames == 2
SortMaxCalls == 5
LruMaxFrames == 4
LruMaxCalls == 2
LookupMaxFrames == 3
LookupMaxCalls == 4
HoverMaxFrames == 3
HoverMaxCalls == 4
ColumnMaxFrames == 1
ColumnMaxCalls == 6
SkipMaxFrames == 2
SkipMaxCalls == 6
FocusMaxFrames == 3
CloseMaxFrames == 3
NestMaxFrames == 1
NestMaxCalls == 5
ClickMaxFrames == 3
TREENODE_POOL_SIZE == 2
MAX_TEXT_STORE == 2

\* Style::default (style.rs:88-104).
StyleSizeX == 68
StyleSizeY == 10
StylePadding == 5
StyleSpacing == 4
StyleIndent == 24
StyleTitleHeight == 24
StyleFooterHeight == 20
StyleScrollbarSize == 12
StyleThumbSize == 8
BorderAlpha == 255

\* The text metrics the application supplies (TextWidthFn, TextHeightFn).
text_width(text) == 6 * Len(text)
text_height(font) == 10

\* ------------------------------------------------------------------------
\* Geometry (geometry.rs)
\* ------------------------------------------------------------------------
Max(a, b) == IF a >= b THEN a ELSE b
Min(a, b) == IF a <= b THEN a ELSE b

\* i32 division truncates towards zero.
idiv(a, b) ==
    IF (a >= 0) = (b > 0) THEN (IF a >= 0 THEN a \div b ELSE (-a) \div (-b))
    ELSE -((IF a >= 0 THEN a ELSE -a) \div (IF b > 0 THEN b ELSE -b))

vec2(x, y) == [x |-> x, y |-> y]
rect(x, y, w, h) == [x |-> x, y |-> y, w |-> w, h |-> h]

Vec2ZERO == vec2(0, 0)
RectDefault == rect(0, 0, 0, 0)
UNCLIPPED == rect(0, 0, 16777216, 16777216)

expand(r, n) == rect(r.x - n, r.y - n, r.w + n * 2, r.h + n * 2)

intersect(a, b) ==
    LET x1 == Max(a.x, b.x)
        y1 == Max(a.y, b.y)
        x2 == Max(x1, Min(a.x + a.w, b.x + b.w))
        y2 == Max(y1, Min(a.y + a.h, b.y + b.h))
    IN  rect(x1, y1, x2 - x1, y2 - y1)

\* self.clip(rhs): "All", "None" or "Part".
clip(self, rhs) ==
    IF \/ rhs.x > self.x + self.w \/ rhs.x + rhs.w < self.x
       \/ rhs.y > self.y + self.h \/ rhs.y + rhs.h < self.y
    THEN "All"
    ELSE IF /\ rhs.x >= self.x /\ rhs.x + rhs.w <= self.x + self.w
            /\ rhs.y >= self.y /\ rhs.y + rhs.h <= self.y + self.h
         THEN "None"
         ELSE "Part"

overlaps(r, p) ==
    /\ p.x >= r.x /\ p.x < r.x + r.w
    /\ p.y >= r.y /\ p.y < r.y + r.h

\* ------------------------------------------------------------------------
\* Identifiers (id.rs).  Id::new(item, entropy) hashes item with FNV-1a
\* seeded by entropy, or by the offset basis when entropy is 0.  The hash is
\* kept symbolic: the pair of the seed and the key.  -1 stands for the
\* offset basis; Id::default() is Id(0).
\* ------------------------------------------------------------------------
OFFSET_BASIS == -1
IdDefault == [seed |-> 0, key |-> ""]
IdNew(item, entropy) ==
    [seed |-> IF entropy > 0 THEN entropy ELSE OFFSET_BASIS, key |-> item]

\* ------------------------------------------------------------------------
\* 0-based access to sequences, and ConstVec (const_vec.rs)
\* ------------------------------------------------------------------------
At(s, i) == s[i + 1]
Put(s, i, v) == [s EXCEPT ![i + 1] = v]
Last(s) == s[Len(s)]
Front(s) == SubSeq(s, 1, Len(s) - 1)

Panic(c, why) == IF c.panic = "" THEN [c EXCEPT !.panic = why] ELSE c
Ok(c) == c.panic = ""

\* ConstVec::push asserts index < N.
VecPush(s, item, cap) == IF Len(s) < cap THEN Append(s, item) ELSE s
VecFull(s, cap) == Len(s) >= cap

\* ConstVec::pop returns None on an empty vector.
VecPop(s) == IF Len(s) = 0 THEN s ELSE Front(s)

\* ------------------------------------------------------------------------
\* Context (lib.rs:68-104) and Context::new (lib.rs:267-303)
\* ------------------------------------------------------------------------
LayoutDefault ==
    [body |-> RectDefault, next |-> RectDefault, pos |-> Vec2ZERO,
     size |-> Vec2ZERO, max |-> Vec2ZERO,
     widths |-> [i \in 1..MAX_WIDTHS |-> 0], items |-> 0, item_index |-> 0,
     next_row |-> 0, next_type |-> {}, indent |-> 0]

ContainerDefault ==
    [rect |-> RectDefault, body |-> RectDefault, content_size |-> Vec2ZERO,
     scroll |-> Vec2ZERO, zindex |-> 0, open |-> FALSE, head |-> {}, tail |-> {}]

PoolItemDefault == [id |-> IdDefault, last_update |-> 0]

ResponseDefault == [active |-> FALSE, submit |-> FALSE, change |-> FALSE]

\* resp and ret hold what the last widget or begin_* call returned; panic
\* holds the message of the panic that stopped the program.
ContextNew ==
    [hover_id |-> {}, focus_id |-> {}, last_id |-> {}, last_rect |-> RectDefault,
     last_zindex |-> 0, updated_focus |-> FALSE, frame |-> 0,
     hover_root |-> {}, next_hover_root |-> {}, scroll_target |-> {},
     command_list |-> <<>>, root_list |-> <<>>, container_stack |-> <<>>,
     clip_stack |-> <<>>, id_stack |-> <<>>, layout_stack |-> <<>>,
     container_pool |-> [i \in 1..CONTAINER_POOL_SIZE |-> PoolItemDefault],
     containers |-> [i \in 1..CONTAINER_POOL_SIZE |-> ContainerDefault],
     mouse_pos |-> Vec2ZERO, last_mouse_pos |-> Vec2ZERO,
     mouse_delta |-> Vec2ZERO, scroll_delta |-> Vec2ZERO,
     mouse_down |-> {}, mouse_pressed |-> {}, mouse_released |-> {},
     treenode_pool |-> [i \in 1..TREENODE_POOL_SIZE |-> PoolItemDefault],
     key_down |-> {}, key_pressed |-> {}, text_input |-> <<>>,
     panic |-> "", resp |-> ResponseDefault, ret |-> FALSE]

\* ------------------------------------------------------------------------
\* Small accessors (lib.rs:438-518)
\* ------------------------------------------------------------------------
is_focused(c, id) == c.focus_id = {id}
is_hovered(c, id) == c.hover_id = {id}
set_focus(c, id) == [c EXCEPT !.focus_id = id, !.updated_focus = TRUE]
mouse_pressed(c) == c.mouse_pressed # {}
mouse_released(c) == c.mouse_released # {}
mouse_down(c) == c.mouse_down # {}

\* A create_id that seeds the hash with the number of the frame.
SeedByFrame(c, item) ==
    IF ~Ok(c) THEN c ELSE [c EXCEPT !.last_id = {IdNew(item, c.frame)}]

\* create_id leaves the identifier it returns in last_id.
create_id(c, item) ==
    IF ~Ok(c) THEN c ELSE [c EXCEPT !.last_id = {IdNew(item, Len(c.id_stack))}]
LastId(c) == CHOOSE id \in c.last_id : TRUE

pop_id(c) == IF ~Ok(c) THEN c ELSE [c EXCEPT !.id_stack = VecPop(@)]

PushId(c, id) ==
    IF ~Ok(c) THEN c
    ELSE IF VecFull(c.id_stack, ID_STACK_SIZE)
         THEN Panic(c, "Ran out of memory in ConstVec (id_stack)")
         ELSE [c EXCEPT !.id_stack = Append(@, id)]

check_clip(c, r) ==
    IF Len(c.clip_stack) = 0 THEN "None" ELSE clip(Last(c.clip_stack), r)

\* get_clip_rect unwraps the top of the clip stack: callers test HasClip.
HasClip(c) == Len(c.clip_stack) > 0
get_clip_rect(c) == Last(c.clip_stack)

PushClip(c, r) ==
    IF ~Ok(c) THEN c
    ELSE IF VecFull(c.clip_stack, CLIP_STACK_SIZE)
         THEN Panic(c, "Ran out of memory in ConstVec (clip_stack)")
         ELSE [c EXCEPT !.clip_stack = Append(@, r)]

push_clip_rect(c, r) ==
    IF ~Ok(c) THEN c
    ELSE IF ~HasClip(c) THEN Panic(c, "unwrap on None (get_clip_rect)")
    ELSE PushClip(c, intersect(r, get_clip_rect(c)))

pop_clip_rect(c) == IF ~Ok(c) THEN c ELSE [c EXCEPT !.clip_stack = VecPop(@)]

\* command_list.push(cmd)
PushCommand(c, cmd) ==
    IF ~Ok(c) THEN c
    ELSE IF VecFull(c.command_list, COMMAND_LIST_SIZE)
         THEN Panic(c, "Ran out of memory in ConstVec (command_list)")
         ELSE [c EXCEPT !.command_list = Append(@, cmd)]

Jump(dst) == [type |-> "Jump", dst |-> dst]
set_clip(c, r) == PushCommand(c, [type |-> "Clip", rect |-> r])

\* ------------------------------------------------------------------------
\* Draw (lib.rs:525-594) and draw_frame (lib.rs:248-264)
\* ------------------------------------------------------------------------
draw_rect(c, r, color) ==
    IF ~Ok(c) THEN c
    ELSE IF ~HasClip(c) THEN Panic(c, "unwrap on None (get_clip_rect)")
    ELSE IF intersect(r, get_clip_rect(c)).w > 0 /\ intersect(r, get_clip_rect(c)).h > 0
         THEN PushCommand(c, [type |-> "Rect", rect |-> intersect(r, get_clip_rect(c)),
                              color |-> color])
         ELSE c

draw_box(c, r, color) ==
    draw_rect(
        draw_rect(
            draw_rect(
                draw_rect(c, rect(r.x + 1, r.y, r.w - 2, 1), color),
                rect(r.x + 1, r.y + r.h - 1, r.w - 2, 1), color),
            rect(r.x, r.y, 1, r.h), color),
        rect(r.x + r.w - 1, r.y, 1, r.h), color)

\* The shared shape of draw_text and draw_icon: clip, the command, unclip.
\* The clip stack does not change in between.
DrawClipped(c, r, cmd) ==
    IF ~Ok(c) \/ check_clip(c, r) = "All" THEN c
    ELSE IF check_clip(c, r) = "None" THEN PushCommand(c, cmd)
    ELSE set_clip(PushCommand(set_clip(c, get_clip_rect(c)), cmd), UNCLIPPED)

draw_text(c, text, pos, color) ==
    DrawClipped(c, rect(pos.x, pos.y, text_width(text), text_height("font")),
                [type |-> "Text", pos |-> pos, color |-> color, text |-> text])

draw_icon(c, id, r, color) ==
    DrawClipped(c, r, [type |-> "Icon", id |-> id, rect |-> r, color |-> color])

draw_frame(c, r, color_id) ==
    IF color_id \in {"ScrollBase", "ScrollThumb", "TitleBackground"} \/ BorderAlpha = 0
    THEN draw_rect(c, r, color_id)
    ELSE draw_box(draw_rect(c, r, color_id), expand(r, 1), "Border")

\* ------------------------------------------------------------------------
\* Pool (lib.rs:680-718)
\* ------------------------------------------------------------------------
\* find_by_id: the position of the first slot holding id, {} if there is none.
find_by_id(pool, id) ==
    IF \A i \in 0..(Len(pool) - 1) : At(pool, i).id # id THEN {}
    ELSE {CHOOSE i \in 0..(Len(pool) - 1) :
             /\ At(pool, i).id = id
             /\ \A j \in 0..(i - 1) : At(pool, j).id # id}

\* A scan that takes the first slot not touched in this frame.
RECURSIVE FirstStale(_, _, _, _)
FirstStale(pool, i, f, index) ==
    IF i >= Len(pool) THEN index
    ELSE IF At(pool, i).last_update < f THEN {i}
    ELSE FirstStale(pool, i + 1, f, index)

\* The scan of init: f is the smallest last_update seen so far, index the
\* slot it was seen in; a slot replaces it only if strictly older.
RECURSIVE PoolScan(_, _, _, _)
PoolScan(pool, i, f, index) ==
    IF i >= Len(pool) THEN index
    ELSE IF At(pool, i).last_update < f
         THEN PoolScan(pool, i + 1, At(pool, i).last_update, {i})
         ELSE PoolScan(pool, i + 1, f, index)

\* init(id, frame): the slot chosen ({} if none) and the pool afterwards.
PoolInitIndex(pool, frame) == PoolScan(pool, 0, frame, {})
The(index) == CHOOSE i \in index : TRUE
PoolInit(pool, id, frame) ==
    IF PoolInitIndex(pool, frame) = {} THEN pool
    ELSE Put(pool, The(PoolInitIndex(pool, frame)), [id |-> id, last_update |-> frame])

\* ------------------------------------------------------------------------
\* Container (lib.rs:600-674)
\* ------------------------------------------------------------------------
current_container_index(c) ==
    IF Len(c.container_stack) = 0 THEN {} ELSE {Last(c.container_stack)}

\* get_container_impl: the index it returns ({} for None) ...
GetContainerIndex(c, id, options) ==
    IF find_by_id(c.container_pool, id) # {} THEN find_by_id(c.container_pool, id)
    ELSE IF "Closed" \in options THEN {}
    ELSE PoolInitIndex(c.container_pool, c.frame)

\* A lookup that stamps the slot whatever the container and the options.
TouchAlways(c, i, options) ==
    [c EXCEPT !.container_pool[i + 1].last_update = c.frame]

\* ... the Context after it found the slot i ...
ContainerTouch(c, i, options) ==
    IF At(c.containers, i).open \/ "Closed" \notin options
    THEN [c EXCEPT !.container_pool[i + 1].last_update = c.frame]
    ELSE c

\* A fresh container that is put at the z-index in use.
FreshNotRaised(c, id, i) ==
    [c EXCEPT
        !.container_pool = PoolInit(@, id, c.frame),
        !.containers[i + 1] =
            [ContainerDefault EXCEPT !.open = TRUE, !.zindex = c.last_zindex]]

\* ... and after it took the fresh slot i.
ContainerFresh(c, id, i) ==
    [c EXCEPT
        !.container_pool = PoolInit(@, id, c.frame),
        !.last_zindex = @ + 1,
        !.containers[i + 1] =
            [ContainerDefault EXCEPT !.open = TRUE, !.zindex = c.last_zindex + 1]]

get_container_impl(c, id, options) ==
    IF ~Ok(c) THEN c
    ELSE IF find_by_id(c.container_pool, id) # {}
    THEN ContainerTouch(c, The(find_by_id(c.container_pool, id)), options)
    ELSE IF "Closed" \in options \/ PoolInitIndex(c.container_pool, c.frame) = {} THEN c
    ELSE ContainerFresh(c, id, The(PoolInitIndex(c.container_pool, c.frame)))

container_index_by_name(c, name, options) ==
    get_container_impl(create_id(c, name), IdNew(name, Len(c.id_stack)), options)

\* The first half of pop_container: pop the layout and store the content
\* size in the container on top of the stack.
PopLayout(c) ==
    IF Len(c.layout_stack) = 0 THEN c
    ELSE IF current_container_index(c) = {} THEN [c EXCEPT !.layout_stack = Front(@)]
    ELSE [c EXCEPT
            !.layout_stack = Front(@),
            !.containers[Last(c.container_stack) + 1].content_size =
                vec2(Last(c.layout_stack).max.x - Last(c.layout_stack).body.x,
                     Last(c.layout_stack).max.y - Last(c.layout_stack).body.y)]

PopContainerStack(c) == [c EXCEPT !.container_stack = VecPop(@)]

\* A pop_container that leaves the identifier on its stack.
PopContainerKeepsId(c) ==
    IF ~Ok(c) THEN c ELSE PopContainerStack(PopLayout(c))

pop_container(c) ==
    IF ~Ok(c) THEN c ELSE pop_id(PopContainerStack(PopLayout(c)))

\* ------------------------------------------------------------------------
\* Input (lib.rs:724-766)
\* ------------------------------------------------------------------------
input_mouse_move(c, pos) == [c EXCEPT !.mouse_pos = pos]

input_mouse_down(c, pos, btn) ==
    [c EXCEPT !.mouse_pos = pos, !.mouse_down = (@ \cup {btn}) \cup {btn}]

input_mouse_up(c, pos, btn) ==
    [c EXCEPT !.mouse_pos = pos,
              !.mouse_down = @ \ {btn},
              !.mouse_released = @ \cup {btn}]

\* input_scroll stores the movement it is given.
input_scroll(c, delta) == [c EXCEPT !.scroll_delta = delta]

input_key_down(c, key) ==
    [c EXCEPT !.key_down = @ \cup {key}, !.key_pressed = @ \cup {key}]

input_key_up(c, key) == [c EXCEPT !.key_down = @ \ {key}]

\* ------------------------------------------------------------------------
\* ConstStr (text_buf.rs:11-88).  A text is the sequence of its bytes in
\* UTF-8; bytes is the content of the buffer and cap its capacity.
\* ------------------------------------------------------------------------
\* A test that takes every byte for the first byte of a character.
AnyByte(b) == TRUE

\* (byte as i8) >= -0x40: the byte is not a continuation byte 10xxxxxx.
IsBoundary(b) == b < 128 \/ b >= 192

\* The loop of push_str: step back from len to the first byte of a
\* character.  text[len + 1] is bytes[len] of the code.
RECURSIVE TruncLen(_, _)
TruncLen(text, len) ==
    IF len > 0 /\ ~IsBoundary(text[len + 1]) THEN TruncLen(text, len - 1) ELSE len

\* The number of bytes push_str copies, which it returns.
PushCount(bytes, text, cap) ==
    IF Len(text) = 0 THEN 0
    ELSE IF Len(text) > cap - Len(bytes) THEN TruncLen(text, cap - Len(bytes))
    ELSE Len(text)

push_str(bytes, text, cap) ==
    bytes \o SubSeq(text, 1, PushCount(bytes, text, cap))

\* A write_str that writes what fits.
WriteWhatFits(bytes, text, cap) == push_str(bytes, text, cap)

\* write_str answers Err and writes nothing if the text does not fit.
WriteErr(bytes, text, cap) == Len(text) > cap - Len(bytes)
write_str(bytes, text, cap) ==
    IF WriteErr(bytes, text, cap) THEN bytes ELSE push_str(bytes, text, cap)

\* A pop_char that takes one byte away.
PopByte(bytes, len) == IF len = 0 THEN 0 ELSE len - 1

\* The loop of pop_char: the length without the last character.
\* bytes[len] is self[len - 1] of the code.
RECURSIVE PopLen(_, _)
PopLen(bytes, len) ==
    IF len = 0 THEN 0
    ELSE IF IsBoundary(bytes[len]) THEN len - 1
    ELSE PopLen(bytes, len - 1)

pop_char(bytes) == SubSeq(bytes, 1, PopLen(bytes, Len(bytes)))

input_text(c, text) == [c EXCEPT !.text_input = push_str(@, text, MAX_TEXT_STORE)]

\* ------------------------------------------------------------------------
\* Layout (lib.rs:772-930)
\* ------------------------------------------------------------------------
\* Layout::row copies widths over the head of the widths array.
row(l, widths, height) ==
    [l EXCEPT
        !.widths = [i \in 1..MAX_WIDTHS |->
                       IF i <= Len(widths) THEN widths[i] ELSE l.widths[i]],
        !.items = Len(widths),
        !.pos = vec2(l.indent, l.next_row),
        !.size = [@ EXCEPT !.y = height],
        !.item_index = 0]

row_items(l, items, height) ==
    [l EXCEPT
        !.items = items,
        !.pos = vec2(l.indent, l.next_row),
        !.size = [@ EXCEPT !.y = height],
        !.item_index = 0]

SetTopLayout(c, l) == [c EXCEPT !.layout_stack[Len(c.layout_stack)] = l]

\* The tail of layout_next (lib.rs:860-872): advance the cursor past result,
\* move result into the body and fold it into the extent.
LayoutAdvance(c, l, result) ==
    [SetTopLayout(c,
        [l EXCEPT
            !.pos = [@ EXCEPT !.x = @ + result.w + StyleSpacing],
            !.next_row = Max(@, result.y + result.h + StyleSpacing),
            !.max = vec2(Max(l.max.x, result.x + l.body.x + result.w),
                         Max(l.max.y, result.y + l.body.y + result.h))])
     EXCEPT !.last_rect = rect(result.x + l.body.x, result.y + l.body.y,
                               result.w, result.h)]

\* A new row is begun when the columns of the row are used up.
LayoutWrap(l) ==
    IF l.item_index = l.items THEN row_items(l, l.items, l.size.y) ELSE l

\* A size taken as it is given unless it is 0.
SizeAsGiven(v, default, rest) == IF v = 0 THEN default ELSE v

\* 0 is the default size, a negative size fills what is left of the body.
LayoutSize(v, default, rest) ==
    IF v = 0 THEN default ELSE IF v < 0 THEN v + rest ELSE v

\* The cell of layout l (lib.rs:826-857), before it is moved into the body.
LayoutCell(l) ==
    rect(l.pos.x, l.pos.y,
         LayoutSize(IF l.items > 0 THEN At(l.widths, l.item_index) ELSE l.size.x,
                    StyleSizeX + StylePadding * 2, l.body.w - l.pos.x + 1),
         LayoutSize(l.size.y, StyleSizeY + StylePadding * 2, l.body.h - l.pos.y + 1))

LayoutNextCell(c, l) ==
    LayoutAdvance(c, [l EXCEPT !.item_index = @ + 1], LayoutCell(l))

LayoutNextSet(c, l) ==
    IF l.next_type = {"Absolute"}
    THEN [SetTopLayout(c, [l EXCEPT !.next_type = {}]) EXCEPT !.last_rect = l.next]
    ELSE LayoutAdvance(c, [l EXCEPT !.next_type = {}], l.next)

\* layout_next returns the rectangle it leaves in last_rect.
layout_next(c) ==
    IF ~Ok(c) THEN c
    ELSE IF Len(c.layout_stack) = 0 THEN Panic(c, "unwrap on None (layout_stack)")
    ELSE IF Last(c.layout_stack).next_type # {}
    THEN LayoutNextSet(c, Last(c.layout_stack))
    ELSE LayoutNextCell(c, LayoutWrap(Last(c.layout_stack)))

layout_row(c, widths, height) ==
    IF ~Ok(c) THEN c
    ELSE IF Len(c.layout_stack) = 0 THEN Panic(c, "unwrap on None (layout_stack)")
    ELSE SetTopLayout(c, row(Last(c.layout_stack), widths, height))

push_layout(c, body, scroll) ==
    IF ~Ok(c) THEN c
    ELSE IF VecFull(c.layout_stack, LAYOUT_STACK_SIZE)
    THEN Panic(c, "Ran out of memory in ConstVec (layout_stack)")
    ELSE [c EXCEPT !.layout_stack =
            Append(@, row([LayoutDefault EXCEPT
                              !.body = rect(body.x - scroll.y, body.y - scroll.y,
                                            body.w, body.h),
                              !.max = vec2(-16777216, -16777216)],
                          <<0>>, 0))]

\* layout_begin_column: the next cell of the layout becomes the body of a
\* new layout.
layout_begin_column(c) == push_layout(layout_next(c), layout_next(c).last_rect, Vec2ZERO)

\* A column that is popped and forgotten.
ColumnDropped(a, b) == a

\* The parent a after the column b has been folded into it.
ColumnMerge(a, b) ==
    [a EXCEPT
        !.pos = [@ EXCEPT !.x = Max(@, b.pos.x + b.body.x - a.body.x)],
        !.next_row = Max(@, b.next_row + b.body.y - a.body.y),
        !.max = vec2(Max(a.max.x, b.max.x), Max(a.max.y, b.max.y))]

layout_end_column(c) ==
    IF ~Ok(c) THEN c
    ELSE IF Len(c.layout_stack) < 2 THEN Panic(c, "unwrap on None (layout_stack)")
    ELSE [c EXCEPT !.layout_stack =
            Append(SubSeq(@, 1, Len(@) - 2),
                   ColumnMerge(@[Len(@) - 1], @[Len(@)]))]

\* ------------------------------------------------------------------------
\* Hover and focus (lib.rs:994-1034, 1767-1787)
\* ------------------------------------------------------------------------
\* The walk of in_hover_root from the innermost container (position i of the
\* stack, 1-based) outwards, stopping at the first root container.
RECURSIVE HoverRootWalk(_, _, _)
HoverRootWalk(c, hover_root, i) ==
    IF i = 0 THEN FALSE
    ELSE IF c.container_stack[i] = hover_root THEN TRUE
    ELSE IF At(c.containers, c.container_stack[i]).head # {} THEN FALSE
    ELSE HoverRootWalk(c, hover_root, i - 1)

\* A hover test that lets every container pass, where in_hover_root lets
\* only the containers of the hover root pass.
AnyRoot(c) == TRUE

in_hover_root(c) ==
    IF c.hover_root = {} THEN FALSE
    ELSE HoverRootWalk(c, The(c.hover_root), Len(c.container_stack))

\* is_mouse_over unwraps the clip rectangle once rect overlaps the pointer.
MouseOverPanics(c, r) == overlaps(r, c.mouse_pos) /\ ~HasClip(c)
is_mouse_over(c, r) ==
    /\ overlaps(r, c.mouse_pos)
    /\ overlaps(get_clip_rect(c), c.mouse_pos)
    /\ in_hover_root(c)

\* The statements of update_widget, in the order of the code.  What they
\* read of the Context at entry (the focus on id, the pointer, the clip and
\* container stacks) is not changed by the statements before them.
UpdateMark(c, id) ==
    IF is_focused(c, id) THEN [c EXCEPT !.updated_focus = TRUE] ELSE c

UpdateHover(c, id, mouse_over) ==
    IF mouse_over /\ ~mouse_down(c) THEN [c EXCEPT !.hover_id = {id}] ELSE c

UpdateLossPress(c, mouse_over) ==
    IF mouse_pressed(c) /\ ~mouse_over THEN set_focus(c, {}) ELSE c

UpdateLossRelease(c, options) ==
    IF ~mouse_down(c) /\ "HoldFocus" \in options THEN set_focus(c, {}) ELSE c

UpdateFocusLoss(c, id, mouse_over, options) ==
    IF is_focused(c, id)
    THEN UpdateLossRelease(UpdateLossPress(c, mouse_over), options)
    ELSE c

UpdateFocusGain(c, id, mouse_over) ==
    IF is_hovered(c, id)
    THEN IF mouse_pressed(c) THEN set_focus(c, {id})
         ELSE IF ~mouse_over THEN [c EXCEPT !.hover_id = {}] ELSE c
    ELSE c

update_widget(c, id, r, options) ==
    IF ~Ok(c) THEN c
    ELSE IF "NoInteract" \in options THEN UpdateMark(c, id)
    ELSE IF MouseOverPanics(c, r)
    THEN Panic(UpdateMark(c, id), "unwrap on None (get_clip_rect)")
    ELSE UpdateFocusGain(
            UpdateFocusLoss(
                UpdateHover(UpdateMark(c, id), id, is_mouse_over(c, r)),
                id, is_mouse_over(c, r), options),
            id, is_mouse_over(c, r))

\* ------------------------------------------------------------------------
\* Widgets (lib.rs:936-992, 1097-1132)
\* ------------------------------------------------------------------------
\* color_id + 1 and color_id + 2 of draw_widget_frame.
ShiftColor(color_id, by) ==
    IF by = 0 THEN color_id
    ELSE IF color_id = "Button"
         THEN (IF by = 1 THEN "ButtonHover" ELSE "ButtonFocus")
         ELSE (IF by = 1 THEN "BaseHover" ELSE "BaseFocus")

draw_widget_frame(c, id, r, color_id, options) ==
    IF ~Ok(c) \/ "NoFrame" \in options THEN c
    ELSE draw_frame(c, r,
            ShiftColor(color_id,
                       IF is_focused(c, id) THEN 2
                       ELSE IF is_hovered(c, id) THEN 1 ELSE 0))

\* Where draw_widget_text puts the text.
TextPos(text, r, options) ==
    vec2(IF "AlignCenter" \in options THEN r.x + idiv(r.w - text_width(text), 2)
         ELSE IF "AlignRight" \in options
              THEN r.x + r.w - text_width(text) - StylePadding
              ELSE r.x + StylePadding,
         r.y + idiv(r.h - text_height("font"), 2))

draw_widget_text(c, text, r, color_id, options) ==
    pop_clip_rect(draw_text(push_clip_rect(c, r), text, TextPos(text, r, options),
                            color_id))

\* button(label, icon, options).  The identifier is in last_id and the
\* rectangle in last_rect once create_id and layout_next have run; the
\* response is left in resp.
ButtonSubmit(c) ==
    IF Ok(c) /\ "Left" \in c.mouse_pressed /\ is_focused(c, LastId(c))
    THEN [c EXCEPT !.resp = [@ EXCEPT !.submit = TRUE]]
    ELSE c

ButtonUpdate(c, options) ==
    IF ~Ok(c) THEN c ELSE update_widget(c, LastId(c), c.last_rect, options)

ButtonDraw(c, label, icon, options) ==
    IF ~Ok(c) THEN c
    ELSE IF label = ""
    THEN draw_widget_frame(c, LastId(c), c.last_rect, "Button", options)
    ELSE draw_widget_text(
            draw_widget_frame(c, LastId(c), c.last_rect, "Button", options),
            label, c.last_rect, "Text", options)

ButtonIcon(c, icon) ==
    IF Ok(c) /\ icon # "None" THEN draw_icon(c, icon, c.last_rect, "Text") ELSE c

button(c, label, icon, options) ==
    IF ~Ok(c) THEN c
    ELSE ButtonIcon(
            ButtonDraw(
                ButtonSubmit(
                    ButtonUpdate(
                        layout_next(
                            create_id([c EXCEPT !.resp = ResponseDefault],
                                      IF label = "" THEN "&icon" ELSE label)),
                        options)),
                label, icon, options),
            icon)

\* ------------------------------------------------------------------------
\* Headers and tree nodes (lib.rs:1365-1396, 1604-1670).  index is what
\* find_by_id answered on the treenode pool when the call began.
\* ------------------------------------------------------------------------
init_treenode_pool(c, id) ==
    IF ~Ok(c) THEN c ELSE [c EXCEPT !.treenode_pool = PoolInit(@, id, c.frame)]

init_container_pool(c, id) ==
    IF ~Ok(c) THEN c ELSE [c EXCEPT !.container_pool = PoolInit(@, id, c.frame)]

\* A header that shows what the pool says, whatever its options.
PoolSays(active, options) == active

\* With Expanded the meaning of the pool entry is reversed.
HeaderExpanded(active, options) ==
    IF "Expanded" \in options THEN ~active ELSE active

\* A click on the focused header toggles it.
HeaderActive(c, index) ==
    IF "Left" \in c.mouse_pressed /\ is_focused(c, LastId(c))
    THEN index = {} ELSE index # {}

HeaderPool(c, index) ==
    IF ~Ok(c) THEN c
    ELSE IF index # {}
    THEN (IF HeaderActive(c, index)
          THEN [c EXCEPT !.treenode_pool[The(index) + 1].last_update = c.frame]
          ELSE [c EXCEPT !.treenode_pool[The(index) + 1] = PoolItemDefault])
    ELSE IF HeaderActive(c, index) THEN init_treenode_pool(c, LastId(c))
    ELSE c

HeaderFrame(c, is_treenode) ==
    IF ~Ok(c) THEN c
    ELSE IF is_treenode /\ is_focused(c, LastId(c))
    THEN draw_frame(c, c.last_rect, "ButtonHover")
    ELSE draw_widget_frame(c, LastId(c), c.last_rect, "Button", {})

HeaderIcon(c, expanded) ==
    IF ~Ok(c) THEN c
    ELSE draw_icon(c, IF expanded THEN "Expanded" ELSE "Collapsed",
                   rect(c.last_rect.x, c.last_rect.y, c.last_rect.h, c.last_rect.h),
                   "Text")

HeaderText(c, label) ==
    IF ~Ok(c) THEN c
    ELSE draw_widget_text(c, label,
            rect(c.last_rect.x + (c.last_rect.h - StylePadding), c.last_rect.y,
                 c.last_rect.w - (c.last_rect.h - StylePadding), c.last_rect.h),
            "Text", {})

HeaderUpdate(c) ==
    IF ~Ok(c) THEN c ELSE update_widget(c, LastId(c), c.last_rect, {})

HeaderResp(c, expanded) ==
    IF ~Ok(c) THEN c ELSE [c EXCEPT !.resp = [ResponseDefault EXCEPT !.active = expanded]]

HeaderAt(c, label, is_treenode, options, index) ==
    HeaderResp(
        HeaderText(
            HeaderIcon(
                HeaderFrame(
                    HeaderPool(
                        HeaderUpdate(layout_next(layout_row(create_id(c, label),
                                                            <<-1>>, 0))),
                        index),
                    is_treenode),
                HeaderExpanded(index # {}, options)),
            label),
        HeaderExpanded(index # {}, options))

header_impl(c, label, is_treenode, options) ==
    IF ~Ok(c) THEN c
    ELSE HeaderAt(c, label, is_treenode, options,
                  find_by_id(c.treenode_pool, IdNew(label, Len(c.id_stack))))

header(c, label, options) == header_impl(c, label, FALSE, options)

\* An active tree node indents the layout and pushes its identifier.
TreenodeIndent(c, by) ==
    IF Len(c.layout_stack) = 0 THEN c
    ELSE [c EXCEPT !.layout_stack[Len(c.layout_stack)].indent = @ + by]

TreenodeOpen(c) ==
    IF ~Ok(c) \/ ~c.resp.active \/ Len(c.layout_stack) = 0 THEN c
    ELSE PushId(TreenodeIndent(c, StyleIndent), LastId(c))

begin_treenode(c, label, options) ==
    TreenodeOpen(header_impl(c, label, TRUE, options))

end_treenode(c) ==
    IF ~Ok(c) THEN c ELSE pop_id(TreenodeIndent(c, -StyleIndent))

\* ------------------------------------------------------------------------
\* Root containers (lib.rs:1719-1765)
\* ------------------------------------------------------------------------
PushContainer(c, cnt_idx) ==
    IF ~Ok(c) THEN c
    ELSE IF VecFull(c.container_stack, CONTAINER_STACK_SIZE)
         THEN Panic(c, "Ran out of memory in ConstVec (container_stack)")
         ELSE [c EXCEPT !.container_stack = Append(@, cnt_idx)]

PushRoot(c, cnt_idx) ==
    IF ~Ok(c) THEN c
    ELSE IF VecFull(c.root_list, ROOT_LIST_SIZE)
         THEN Panic(c, "Ran out of memory in ConstVec (root_list)")
         ELSE [c EXCEPT !.root_list = Append(@, cnt_idx)]

\* A candidate that is the last root begun under the pointer.
LastUnderPointer(c, cnt_idx) ==
    IF overlaps(At(c.containers, cnt_idx).rect, c.mouse_pos)
    THEN {cnt_idx}
    ELSE c.next_hover_root

\* The hover-root candidate after cnt_idx has been begun (lib.rs:1730-1737).
NextHoverRoot(c, cnt_idx) ==
    IF /\ overlaps(At(c.containers, cnt_idx).rect, c.mouse_pos)
       /\ \/ c.next_hover_root = {}
          \/ \E x \in c.next_hover_root :
                At(c.containers, cnt_idx).zindex > At(c.containers, x).zindex
    THEN {cnt_idx}
    ELSE c.next_hover_root

\* After the head Jump is pushed: record it and the hover-root candidate.
RootMark(c, cnt_idx) ==
    IF ~Ok(c) THEN c
    ELSE [c EXCEPT !.containers[cnt_idx + 1].head = {Len(c.command_list) - 1},
                   !.next_hover_root = NextHoverRoot(c, cnt_idx)]

begin_root_container(c, cnt_idx) ==
    PushClip(
        RootMark(PushCommand(PushRoot(PushContainer(c, cnt_idx), cnt_idx), Jump(0)),
                 cnt_idx),
        UNCLIPPED)

\* A close that records the tail and leaves the head Jump as it is.
RootCloseTailOnly(c, index) ==
    IF ~Ok(c) THEN c
    ELSE [c EXCEPT !.containers[index + 1].tail = {Len(c.command_list) - 1}]

\* After the tail Jump is pushed: record it and point the head Jump past it.
RootClose(c, index) ==
    IF ~Ok(c) THEN c
    ELSE IF At(c.containers, index).head = {}
    THEN Panic(c, "Called end_root_container() before begin_root_container()")
    ELSE IF The(At(c.containers, index).head) >= Len(c.command_list)
    THEN Panic(c, "Index out of bounds.")
    ELSE IF At(c.command_list, The(At(c.containers, index).head)).type # "Jump"
    THEN Panic(c, "unreachable (head is no Jump)")
    ELSE [c EXCEPT
            !.containers[index + 1].tail = {Len(c.command_list) - 1},
            !.command_list[The(At(c.containers, index).head) + 1] =
                Jump(Len(c.command_list))]

end_root_container(c) ==
    IF ~Ok(c) THEN c
    ELSE IF current_container_index(c) = {}
    THEN Panic(c, "unwrap on None (current_container_index)")
    ELSE pop_container(pop_clip_rect(
            RootClose(PushCommand(c, Jump(0)), Last(c.container_stack))))

\* ------------------------------------------------------------------------
\* Scrollbars (lib.rs:1672-1700, 1790-1839).  X, Y, W, H are the field names
\* the macro is instantiated with.
\* ------------------------------------------------------------------------
Clamp(v, lo, hi) == IF v < lo THEN lo ELSE IF v > hi THEN hi ELSE v

ScrollBase(body, X, W) ==
    [[body EXCEPT ![X] = body[X] + body[W]] EXCEPT !.w = StyleScrollbarSize]

\* Drag the thumb, then clamp the offset.
ScrollDrag(c, cnt_idx, id, content_size, base, maxscroll, Y, H) ==
    IF ~Ok(c) THEN c
    ELSE [c EXCEPT !.containers[cnt_idx + 1].scroll[Y] =
            Clamp(IF is_focused(c, id) /\ "Left" \in c.mouse_down
                  THEN @ + idiv(c.mouse_delta[Y] * content_size[Y], base[H])
                  ELSE @,
                  0, maxscroll)]

ThumbSize(base, body, content_size, Y, H) ==
    Max(StyleThumbSize, idiv(base[H] * body[H], content_size[Y]))

ScrollThumb(c, cnt_idx, base, body, content_size, maxscroll, Y, H) ==
    IF ~Ok(c) THEN c
    ELSE draw_frame(c,
            [[base EXCEPT ![H] = ThumbSize(base, body, content_size, Y, H)]
                EXCEPT ![Y] = base[Y] +
                    idiv(At(c.containers, cnt_idx).scroll[Y]
                            * (base[H] - ThumbSize(base, body, content_size, Y, H)),
                         maxscroll)],
            "ScrollThumb")

ScrollTarget(c, cnt_idx, body) ==
    IF ~Ok(c) THEN c
    ELSE IF MouseOverPanics(c, body) THEN Panic(c, "unwrap on None (get_clip_rect)")
    ELSE IF is_mouse_over(c, body) THEN [c EXCEPT !.scroll_target = {cnt_idx}]
    ELSE c

scrollbar(c, cnt_idx, body, content_size, id_str, X, Y, W, H) ==
    IF ~Ok(c) THEN c
    ELSE IF content_size[Y] - body[H] > 0 /\ body[H] > 0
    THEN ScrollTarget(
            ScrollThumb(
                draw_frame(
                    ScrollDrag(
                        update_widget(create_id(c, id_str),
                                      IdNew(id_str, Len(c.id_stack)),
                                      ScrollBase(body, X, W), {}),
                        cnt_idx, IdNew(id_str, Len(c.id_stack)), content_size,
                        ScrollBase(body, X, W), content_size[Y] - body[H], Y, H),
                    ScrollBase(body, X, W), "ScrollBase"),
                cnt_idx, ScrollBase(body, X, W), body, content_size,
                content_size[Y] - body[H], Y, H),
            cnt_idx, body)
    ELSE [c EXCEPT !.containers[cnt_idx + 1].scroll[Y] = 0]

\* The body that scrollbars() leaves: room is made for the bars.
ScrollBody(c, cnt_idx, body) ==
    [body EXCEPT
        !.w = IF At(c.containers, cnt_idx).content_size.y + StylePadding * 2
                    > At(c.containers, cnt_idx).body.h
              THEN @ - StyleScrollbarSize ELSE @,
        !.h = IF At(c.containers, cnt_idx).content_size.x + StylePadding * 2
                    > At(c.containers, cnt_idx).body.w
              THEN @ - StyleScrollbarSize ELSE @]

\* scrollbars(), given the body it leaves.
scrollbars(c, cnt_idx, body, shrunk) ==
    pop_clip_rect(
        scrollbar(
            scrollbar(push_clip_rect(c, body), cnt_idx, shrunk, Vec2ZERO,
                      "!scrollbarv", "x", "y", "w", "h"),
            cnt_idx, shrunk, Vec2ZERO, "!scrollbarh", "y", "x", "h", "w"))

\* The end of push_container_body: the layout and the stored body.
PushBody(c, cnt_idx, body) ==
    IF ~Ok(c) THEN c
    ELSE [push_layout(c, expand(body, -StylePadding), At(c.containers, cnt_idx).scroll)
            EXCEPT !.containers[cnt_idx + 1].body =
                IF VecFull(c.layout_stack, LAYOUT_STACK_SIZE) THEN @ ELSE body]

push_container_body(c, cnt_idx, body, options) ==
    IF ~Ok(c) THEN c
    ELSE IF "NoScroll" \in options THEN PushBody(c, cnt_idx, body)
    ELSE PushBody(scrollbars(c, cnt_idx, body, ScrollBody(c, cnt_idx, body)),
                  cnt_idx, ScrollBody(c, cnt_idx, body))

\* ------------------------------------------------------------------------
\* Windows, popups and panels (lib.rs:1398-1602).  The boolean a begin_*
\* returns is left in ret.
\* ------------------------------------------------------------------------
Returns(c, v) == IF ~Ok(c) THEN c ELSE [c EXCEPT !.ret = v]

\* A window that takes the rectangle argument whatever it has stored.
TakeArgument(stored, arg) == arg

\* The rectangle argument only replaces a stored rectangle of width 0.
WindowRect(stored, arg) == IF stored.w = 0 THEN arg ELSE stored

WindowSetRect(c, cnt_idx, arg) ==
    IF ~Ok(c) THEN c
    ELSE [c EXCEPT !.containers[cnt_idx + 1].rect = WindowRect(@, arg)]

WindowFrame(c, r, options) ==
    IF ~Ok(c) \/ "NoFrame" \in options THEN c
    ELSE draw_frame(c, r, "WindowBackground")

TitleRect(r) == [r EXCEPT !.h = StyleTitleHeight]
CloseRect(r) ==
    rect(r.x + r.w - StyleTitleHeight, r.y, StyleTitleHeight, StyleTitleHeight)
ResizeRect(r) ==
    rect(r.x + r.w - StyleFooterHeight, r.y + r.h - StyleFooterHeight,
         StyleFooterHeight, StyleFooterHeight)

\* The title bar moves the window while it has the focus and Left is down.
TitleDrag(c, cnt_idx, id) ==
    IF Ok(c) /\ is_focused(c, id) /\ "Left" \in c.mouse_down
    THEN [c EXCEPT !.containers[cnt_idx + 1].rect =
            [@ EXCEPT !.x = @ + c.mouse_delta.x, !.y = @ + c.mouse_delta.y]]
    ELSE c

CloseClick(c, cnt_idx, id) ==
    IF Ok(c) /\ is_hovered(c, id) /\ "Left" \in c.mouse_released
    THEN [c EXCEPT !.containers[cnt_idx + 1].open = FALSE]
    ELSE c

WindowClose(c, cnt_idx, r, options) ==
    IF ~Ok(c) \/ "NoClose" \in options THEN c
    ELSE CloseClick(
            update_widget(
                draw_icon(create_id(c, "!close"), "Close", CloseRect(r), "TitleText"),
                IdNew("!close", Len(c.id_stack)), CloseRect(r), options),
            cnt_idx, IdNew("!close", Len(c.id_stack)))

WindowTitle(c, cnt_idx, title, r, options) ==
    IF ~Ok(c) \/ "NoTitle" \in options THEN c
    ELSE WindowClose(
            TitleDrag(
                draw_widget_text(
                    update_widget(
                        create_id(draw_frame(c, TitleRect(r), "TitleBackground"),
                                  "!title"),
                        IdNew("!title", Len(c.id_stack)), TitleRect(r), options),
                    title, r, "TitleText", options),
                cnt_idx, IdNew("!title", Len(c.id_stack))),
            cnt_idx, r, options)

\* The resize handle resizes the window while it has the focus and Left is
\* down.
ResizeDrag(c, cnt_idx, id) ==
    IF Ok(c) /\ is_focused(c, id) /\ "Left" \in c.mouse_down
    THEN [c EXCEPT !.containers[cnt_idx + 1].rect =
            [@ EXCEPT !.w = Max(96, @ + c.mouse_delta.x),
                      !.h = Max(64, @ + c.mouse_delta.y)]]
    ELSE c

WindowResize(c, cnt_idx, r, options) ==
    IF ~Ok(c) \/ "NoResize" \in options THEN c
    ELSE ResizeDrag(
            update_widget(
                draw_icon(create_id(c, "!resize"), "Resize", ResizeRect(r), "Text"),
                IdNew("!resize", Len(c.id_stack)), ResizeRect(r), options),
            cnt_idx, IdNew("!resize", Len(c.id_stack)))

\* The body of the window: rect without the title bar and the footer.
WindowBody(r, options) ==
    rect(r.x,
         r.y + (IF "NoTitle" \in options THEN 0 ELSE StyleTitleHeight),
         r.w,
         r.h - (IF "NoTitle" \in options THEN 0 ELSE StyleTitleHeight)
             - (IF "NoResize" \in options THEN 0 ELSE StyleFooterHeight))

WindowAutoSize(c, cnt_idx, options) ==
    IF ~Ok(c) \/ "AutoSize" \notin options THEN c
    ELSE [c EXCEPT !.containers[cnt_idx + 1].rect =
            [@ EXCEPT
                !.w = At(c.containers, cnt_idx).content_size.x
                        + (@ - Last(c.layout_stack).body.w),
                !.h = At(c.containers, cnt_idx).content_size.y
                        + (@ - Last(c.layout_stack).body.h)]]

\* A popup closes when the mouse is pressed elsewhere.
WindowPopupClose(c, cnt_idx, options) ==
    IF /\ Ok(c) /\ "Popup" \in options /\ mouse_pressed(c)
       /\ c.hover_root # {} /\ c.hover_root # {cnt_idx}
    THEN [c EXCEPT !.containers[cnt_idx + 1].open = FALSE]
    ELSE c

WindowClip(c, cnt_idx) ==
    IF ~Ok(c) THEN c ELSE push_clip_rect(c, At(c.containers, cnt_idx).body)

\* begin_window from id_stack.push on (lib.rs:1420-1520); r is the rectangle
\* of the container once the argument has been applied.
WindowOpenAt(c, id, cnt_idx, title, arg, r, options) ==
    Returns(
        WindowClip(
            WindowPopupClose(
                WindowAutoSize(
                    push_container_body(
                        WindowResize(
                            WindowTitle(
                                WindowFrame(
                                    begin_root_container(
                                        WindowSetRect(PushId(c, id), cnt_idx, arg),
                                        cnt_idx),
                                    r, options),
                                cnt_idx, title, r, options),
                            cnt_idx, r, options),
                        cnt_idx, WindowBody(r, options), options),
                    cnt_idx, options),
                cnt_idx, options),
            cnt_idx),
        TRUE)

WindowOpen(c, id, cnt_idx, title, arg, options) ==
    WindowOpenAt(c, id, cnt_idx, title, arg,
                 WindowRect(At(c.containers, cnt_idx).rect, arg), options)

\* begin_window once get_container_impl has answered cnt_idx.
\* A begin_window that pushes the identifier before it looks at the container.
BeginWindowIdFirst(c, id, cnt_idx, title, arg, options) ==
    IF ~Ok(c) THEN c
    ELSE IF cnt_idx = {} THEN Returns([c EXCEPT !.id_stack = Append(@, id)], FALSE)
    ELSE IF ~At(c.containers, The(cnt_idx)).open
    THEN Returns([c EXCEPT !.id_stack = Append(@, id)], FALSE)
    ELSE WindowOpen(c, id, The(cnt_idx), title, arg, options)

BeginWindowAt(c, id, cnt_idx, title, arg, options) ==
    IF ~Ok(c) THEN c
    ELSE IF cnt_idx = {} THEN Returns(c, FALSE)
    ELSE IF ~At(c.containers, The(cnt_idx)).open THEN Returns(c, FALSE)
    ELSE WindowOpen(c, id, The(cnt_idx), title, arg, options)

begin_window(c, title, arg, options) ==
    IF ~Ok(c) THEN c
    ELSE IF title = "" THEN Panic(c, "Window title string is empty.")
    ELSE BeginWindowAt(
            get_container_impl(create_id(c, title), IdNew(title, Len(c.id_stack)),
                               options),
            IdNew(title, Len(c.id_stack)),
            GetContainerIndex(c, IdNew(title, Len(c.id_stack)), options),
            title, arg, options)

end_window(c) == end_root_container(pop_clip_rect(c))

\* An open_popup that opens the popup without bringing it to the front.
OpenPopupNoRaise(c, cnt_idx) ==
    IF ~Ok(c) THEN c
    ELSE IF cnt_idx = {} THEN Panic(c, "unwrap on None (open_popup)")
    ELSE [c EXCEPT
            !.hover_root = cnt_idx,
            !.next_hover_root = cnt_idx,
            !.containers[The(cnt_idx) + 1] =
                [@ EXCEPT !.rect = rect(c.mouse_pos.x, c.mouse_pos.y, 1, 1),
                          !.open = TRUE]]

\* open_popup once get_container_impl has answered cnt_idx.
OpenPopupAt(c, cnt_idx) ==
    IF ~Ok(c) THEN c
    ELSE IF cnt_idx = {} THEN Panic(c, "unwrap on None (open_popup)")
    ELSE [c EXCEPT
            !.hover_root = cnt_idx,
            !.next_hover_root = cnt_idx,
            !.last_zindex = @ + 1,
            !.containers[The(cnt_idx) + 1] =
                [@ EXCEPT !.rect = rect(c.mouse_pos.x, c.mouse_pos.y, 1, 1),
                          !.open = TRUE,
                          !.zindex = c.last_zindex + 1]]

open_popup(c, name) ==
    IF ~Ok(c) THEN c
    ELSE OpenPopupAt(
            get_container_impl(create_id(c, name), IdNew(name, Len(c.id_stack)), {}),
            GetContainerIndex(c, IdNew(name, Len(c.id_stack)), {}))

PopupOptions == {"Popup", "AutoSize", "NoResize", "NoScroll", "NoTitle", "Closed"}
begin_popup(c, name) == begin_window(c, name, RectDefault, PopupOptions)
end_popup(c) == end_window(c)

PanelFrame(c, options) ==
    IF ~Ok(c) \/ "NoFrame" \in options THEN c
    ELSE draw_frame(c, c.last_rect, "PanelBackground")

\* begin_panel once layout_next has left the rectangle in last_rect.
PanelOpen(c, cnt_idx, options) ==
    IF ~Ok(c) THEN c
    ELSE Returns(
            WindowClip(
                push_container_body(
                    PushContainer(
                        PanelFrame(
                            [c EXCEPT !.containers[cnt_idx + 1].rect = c.last_rect],
                            options),
                        cnt_idx),
                    cnt_idx, c.last_rect, options),
                cnt_idx),
            TRUE)

\* begin_panel once get_container_impl has answered cnt_idx.
BeginPanelAt(c, cnt_idx, options) ==
    IF ~Ok(c) THEN c
    ELSE IF cnt_idx = {} THEN Returns(c, FALSE)
    ELSE PanelOpen(layout_next(c), The(cnt_idx), options)

begin_panel(c, name, options) ==
    IF ~Ok(c) THEN c
    ELSE IF name = "" THEN Panic(c, "Panel name string is empty.")
    ELSE BeginPanelAt(
            get_container_impl(
                PushId(create_id(c, name), IdNew(name, Len(c.id_stack))),
                IdNew(name, Len(c.id_stack)), options),
            GetContainerIndex(c, IdNew(name, Len(c.id_stack)), options),
            options)

end_panel(c) == pop_container(pop_clip_rect(c))

\* ------------------------------------------------------------------------
\* Frame (lib.rs:305-397)
\* ------------------------------------------------------------------------
begin(c) ==
    [c EXCEPT
        !.command_list = <<>>,
        !.root_list = <<>>,
        !.scroll_target = {},
        !.hover_root = c.next_hover_root,
        !.next_hover_root = {},
        !.mouse_delta = vec2(c.mouse_pos.x - c.last_mouse_pos.x,
                             c.mouse_pos.y - c.last_mouse_pos.y),
        !.frame = @ + 1]

\* An end() that asserts nothing.
NoAsserts(c) == TRUE

\* The four assertions that open end().
EndAsserts(c) ==
    /\ Len(c.container_stack) = 0 /\ Len(c.clip_stack) = 0
    /\ Len(c.id_stack) = 0 /\ Len(c.layout_stack) = 0

EndScroll(c) ==
    IF c.scroll_target = {} THEN c
    ELSE [c EXCEPT
            !.containers[The(c.scroll_target) + 1].scroll =
                vec2(@.x + c.scroll_delta.x, @.y + c.scroll_delta.y)]

\* The focus is kept whether or not it was marked.
EndFocusKept(c) == [c EXCEPT !.updated_focus = FALSE]

EndFocus(c) ==
    [c EXCEPT !.focus_id = IF c.updated_focus THEN @ ELSE {},
              !.updated_focus = FALSE]

\* Bring the hover root to the front if the mouse was pressed.
EndBringToFront(c) ==
    IF c.next_hover_root = {} \/ ~mouse_pressed(c) THEN c
    ELSE IF /\ At(c.containers, The(c.next_hover_root)).zindex < c.last_zindex
            /\ At(c.containers, The(c.next_hover_root)).zindex >= 0
    THEN [c EXCEPT !.last_zindex = @ + 1,
                   !.containers[The(c.next_hover_root) + 1].zindex =
                        c.last_zindex + 1]
    ELSE c

EndResetInput(c) ==
    [c EXCEPT !.key_pressed = {}, !.mouse_pressed = {}, !.mouse_released = {},
              !.scroll_delta = Vec2ZERO, !.last_mouse_pos = c.mouse_pos,
              !.text_input = <<>>]

\* sort_unstable_by on the z-index: any ordering of the root list that is
\* ascending in z-index is a result the sort may give.
ZOf(c, cnt_idx) == At(c.containers, cnt_idx).zindex
RootOrders(n) ==
    {p \in [1..n -> 1..n] : \A i, j \in 1..n : i # j => p[i] # p[j]}
SortedRootLists(c) ==
    {[i \in 1..Len(c.root_list) |-> c.root_list[p[i]]] : p \in
        {q \in RootOrders(Len(c.root_list)) :
            \A i \in 1..(Len(c.root_list) - 1) :
                ZOf(c, c.root_list[q[i]]) <= ZOf(c, c.root_list[q[i + 1]])}}

\* The container whose tail the root cnt_idx (not the first of the sorted
\* list) patches: containers[cnt_idx - 1].
PrevOfRoot(cnt_idx) == cnt_idx - 1

\* Set the Jump at position at to dst, as the match on the command does.
PatchJump(c, at, dst) ==
    IF ~Ok(c) THEN c
    ELSE IF at >= Len(c.command_list) THEN Panic(c, "Index out of bounds.")
    ELSE IF At(c.command_list, at).type # "Jump" THEN Panic(c, "unreachable (no Jump)")
    ELSE [c EXCEPT !.command_list[at + 1] = Jump(dst)]

\* One iteration of the loop of end() (lib.rs:360-396).  Every container of
\* the root list has its head set by begin_root_container.
TailOf(c, cnt_idx) == The(At(c.containers, cnt_idx).tail)
HeadOf(c, cnt_idx) == The(At(c.containers, cnt_idx).head)

EndSpliceFirst(c, cnt_idx) ==
    IF Len(c.command_list) = 0 THEN c
    ELSE IF At(c.command_list, 0).type # "Jump"
    THEN Panic(c, "Widgets must be drawn inside of a window or a popup.")
    ELSE PatchJump(c, 0, HeadOf(c, cnt_idx) + 1)

EndSplicePrev(c, cnt_idx) ==
    IF PrevOfRoot(cnt_idx) < 0 \/ PrevOfRoot(cnt_idx) >= Len(c.containers)
    THEN Panic(c, "Index out of bounds.")
    ELSE IF At(c.containers, PrevOfRoot(cnt_idx)).tail = {}
    THEN Panic(c, "unwrap on None (tail)")
    ELSE PatchJump(c, TailOf(c, PrevOfRoot(cnt_idx)), HeadOf(c, cnt_idx) + 1)

EndSpliceHead(c, i) ==
    IF i = 0 THEN EndSpliceFirst(c, At(c.root_list, i))
    ELSE EndSplicePrev(c, At(c.root_list, i))

EndSpliceLast(c, i) ==
    IF ~Ok(c) \/ i # Len(c.root_list) - 1 THEN c
    ELSE IF At(c.containers, At(c.root_list, i)).tail = {}
    THEN Panic(c, "unwrap on None (tail)")
    ELSE PatchJump(c, TailOf(c, At(c.root_list, i)), Len(c.command_list))

EndSplice(c, i) == EndSpliceLast(EndSpliceHead(c, i), i)

RECURSIVE EndLoop(_, _)
EndLoop(c, i) ==
    IF ~Ok(c) \/ i >= Len(c.root_list) THEN c ELSE EndLoop(EndSplice(c, i), i + 1)

\* end() up to the sort, and end() given the ordering the sort produced.
EndBeforeSort(c) == EndResetInput(EndBringToFront(EndFocus(EndScroll(c))))

end(c, sorted) ==
    IF ~Ok(c) THEN c
    ELSE IF ~EndAsserts(c) THEN Panic(c, "assertion failed: stack not empty at end()")
    ELSE EndLoop([EndBeforeSort(c) EXCEPT !.root_list = sorted], 0)

\* ------------------------------------------------------------------------
\* handle_commands (lib.rs:399-436).  A command is named by its position in
\* the command list.
\* ------------------------------------------------------------------------
Reach(kind, at) == [kind |-> kind, at |-> at]

\* The inner loop: follow Jumps from the command at position at.  It reaches
\* a command, or the end of the stream (a Jump to the length of the list),
\* or it never leaves a cycle of Jumps.
RECURSIVE FollowJumps(_, _, _)
FollowJumps(cmds, at, fuel) ==
    IF At(cmds, at).type # "Jump" THEN Reach("command", at)
    ELSE IF At(cmds, at).dst = Len(cmds) THEN Reach("end", at)
    ELSE IF fuel = 0 THEN Reach("cycle", at)
    ELSE FollowJumps(cmds, At(cmds, at).dst, fuel - 1)

\* The position the outer loop goes to after handling the command it
\* reached from position i.
NextIndex(i, reached) == i + 1

\* The outer loop from position i: the positions handed to the handler, in
\* order, and how the loop stopped.
RECURSIVE Walk(_, _, _)
RECURSIVE WalkOn(_, _, _, _)
Walk(cmds, i, out) ==
    IF i >= Len(cmds) THEN [out |-> out, stop |-> "done"]
    ELSE WalkOn(cmds, i, out, FollowJumps(cmds, i, Len(cmds)))

WalkOn(cmds, i, out, reached) ==
    IF reached.kind = "command"
    THEN Walk(cmds, NextIndex(i, reached.at), Append(out, reached.at))
    ELSE [out |-> out, stop |-> reached.kind]

Handled(c) == Walk(c.command_list, 0, <<>>)

\* handle_commands leaves the list empty (set_len(0)).
handle_commands(c) == IF ~Ok(c) THEN c ELSE [c EXCEPT !.command_list = <<>>]

\* ------------------------------------------------------------------------
\* The main loop of an application: input, begin(), the declarations of the
\* frame, end(), handle_commands (microui-app/src/lib.rs).  Each action is
\* one call on the Context.
\* ------------------------------------------------------------------------
Init ==
    /\ ctx = ContextNew
    /\ phase = "input"
    /\ calls = 0
    /\ last = [op |-> "new", arg |-> "", opts |-> {}, rect |-> RectDefault,
               text |-> <<>>]
    /\ pressed = {}
    /\ delivered = <<>>
    /\ drained = <<>>
    /\ declared = {}
    /\ focus0 = {}
    /\ updated0 = FALSE
    /\ blocks = <<>>
    /\ buf = [bytes |-> <<>>, ret |-> 0, err |-> FALSE, before |-> <<>>]

Did(op, arg, opts, r) ==
    last' = [op |-> op, arg |-> arg, opts |-> opts, rect |-> r, text |-> <<>>]

\* A call that is given a text.
DidText(op, text) ==
    last' = [op |-> op, arg |-> "", opts |-> {}, rect |-> RectDefault, text |-> text]

\* The depths of the stacks and the indent of the layout on top, as they are
\* before a block is begun.
Depths(op) ==
    [op |-> op, ids |-> Len(ctx.id_stack), containers |-> Len(ctx.container_stack),
     clips |-> Len(ctx.clip_stack), layouts |-> Len(ctx.layout_stack),
     indent |-> IF Len(ctx.layout_stack) = 0 THEN 0 ELSE Last(ctx.layout_stack).indent]

\* The open blocks after the call op: a begin that returned true (for a
\* tree node, that reported active) opens a block, an end closes the
\* innermost one, and a begin_panel that found no container is remembered.
BlocksAfter(after, op) ==
    IF ~Ok(after) THEN blocks
    ELSE IF op \in {"begin_window", "begin_popup", "begin_panel"}
    THEN IF after.ret THEN Append(blocks, Depths(op))
         ELSE IF op = "begin_panel" THEN Append(blocks, Depths("refused"))
         ELSE blocks
    ELSE IF op = "begin_treenode"
    THEN IF after.resp.active THEN Append(blocks, Depths(op)) ELSE blocks
    ELSE IF op = "layout_begin_column" THEN Append(blocks, Depths(op))
    ELSE IF op \in {"end_window", "end_popup", "end_panel", "end_treenode",
                    "layout_end_column"} /\ blocks # <<>>
    THEN Front(blocks)
    ELSE blocks

\* A declaration made between begin() and end().
InFrame(after, op, arg, opts, r) ==
    /\ phase = "frame"
    /\ ctx' = after
    /\ phase' = IF Ok(after) THEN "frame" ELSE "panic"
    /\ calls' = calls + 1
    /\ Did(op, arg, opts, r)
    /\ blocks' = BlocksAfter(after, op)
    /\ UNCHANGED <<pressed, delivered, drained, focus0, updated0, buf>>

\* A call made between two frames.  What was observed of the last frame is
\* forgotten.
Input(after, op, arg) ==
    /\ phase = "input"
    /\ ctx' = after
    /\ Did(op, arg, {}, RectDefault)
    /\ calls' = 0
    /\ delivered' = <<>>
    /\ drained' = <<>>
    /\ declared' = {}
    /\ focus0' = {}
    /\ updated0' = FALSE
    /\ blocks' = <<>>
    /\ UNCHANGED <<phase, buf>>

Begin ==
    /\ phase = "input"
    /\ ctx' = begin(ctx)
    /\ phase' = "frame"
    /\ calls' = 0
    /\ declared' = {}
    /\ focus0' = ctx.focus_id
    /\ updated0' = ctx.updated_focus
    /\ blocks' = <<>>
    /\ delivered' = <<>>
    /\ drained' = <<>>
    /\ Did("begin", "", {}, RectDefault)
    /\ UNCHANGED <<pressed, buf>>

End ==
    /\ phase = "frame"
    /\ \E sorted \in SortedRootLists(EndBeforeSort(ctx)) :
          /\ ctx' = end(ctx, sorted)
          /\ phase' = IF Ok(ctx') THEN "ended" ELSE "panic"
    /\ pressed' = {}
    /\ Did("end", "", {}, RectDefault)
    /\ UNCHANGED <<calls, delivered, drained, declared, focus0, updated0, blocks, buf>>

HandleCommands ==
    /\ phase = "ended"
    /\ delivered' = Handled(ctx).out
    /\ drained' = ctx.command_list
    /\ ctx' = handle_commands(ctx)
    /\ phase' = IF Handled(ctx).stop = "cycle" THEN "hang" ELSE "input"
    /\ Did("handle_commands", "", {}, RectDefault)
    /\ UNCHANGED <<calls, pressed, declared, focus0, updated0, blocks, buf>>

InputMouseMove(pos) ==
    /\ pos # ctx.mouse_pos
    /\ Input(input_mouse_move(ctx, pos), "input_mouse_move", "")
    /\ UNCHANGED pressed

InputMouseDown(pos, btn) ==
    /\ btn \notin ctx.mouse_down
    /\ Input(input_mouse_down(ctx, pos, btn), "input_mouse_down", btn)
    /\ pressed' = pressed \cup {btn}

InputMouseUp(pos, btn) ==
    /\ btn \in ctx.mouse_down
    /\ Input(input_mouse_up(ctx, pos, btn), "input_mouse_up", btn)
    /\ UNCHANGED pressed

\* The movement of the wheel is remembered in last.rect.
InputScroll(delta) ==
    /\ phase = "input"
    /\ ctx' = input_scroll(ctx, delta)
    /\ Did("input_scroll", "", {}, rect(delta.x, delta.y, 0, 0))
    /\ calls' = 0
    /\ delivered' = <<>>
    /\ drained' = <<>>
    /\ declared' = {}
    /\ focus0' = {}
    /\ updated0' = FALSE
    /\ blocks' = <<>>
    /\ UNCHANGED <<phase, pressed, buf>>

InputKeyDown(key) ==
    /\ key \notin ctx.key_down
    /\ Input(input_key_down(ctx, key), "input_key_down", key)
    /\ UNCHANGED pressed

InputKeyUp(key) ==
    /\ key \in ctx.key_down
    /\ Input(input_key_up(ctx, key), "input_key_up", key)
    /\ UNCHANGED pressed

\* The text typed is remembered in last.text.
InputText(text) ==
    /\ phase = "input"
    /\ ctx' = input_text(ctx, text)
    /\ DidText("input_text", text)
    /\ calls' = 0
    /\ delivered' = <<>>
    /\ drained' = <<>>
    /\ declared' = {}
    /\ focus0' = {}
    /\ updated0' = FALSE
    /\ blocks' = <<>>
    /\ UNCHANGED <<phase, pressed, buf>>

SetFocus(id) ==
    /\ ctx.focus_id # {id}
    /\ Input(set_focus(ctx, {id}), "set_focus", "")
    /\ UNCHANGED pressed

BeginWindow(title, arg, options) ==
    /\ InFrame(begin_window(ctx, title, arg, options), "begin_window", title,
               options, arg)
    /\ UNCHANGED declared

\* The container on top of the stack is a root container.
InRoot == Len(ctx.container_stack) > 0
            /\ At(ctx.containers, Last(ctx.container_stack)).head # {}

EndWindow ==
    /\ InRoot
    /\ InFrame(end_window(ctx), "end_window", "", {}, RectDefault)
    /\ UNCHANGED declared

DrawRect(r, color) ==
    /\ Len(ctx.container_stack) > 0
    /\ InFrame(draw_rect(ctx, r, color), "draw_rect", color, {}, r)
    /\ UNCHANGED declared

DrawText(text, pos) ==
    /\ Len(ctx.container_stack) > 0
    /\ InFrame(draw_text(ctx, text, pos, "Text"), "draw_text", text, {}, RectDefault)
    /\ UNCHANGED declared

Button(label, options) ==
    /\ Len(ctx.container_stack) > 0
    /\ InFrame(button(ctx, label, "None", options), "button", label, options,
               RectDefault)
    /\ declared' = declared \cup {[id |-> IdNew(label, Len(ctx.id_stack)),
                                   rect |-> ctx'.last_rect]}

\* draw_icon may be called with no window begun: check_clip answers None
\* on an empty clip stack.
DrawIcon(id, r) ==
    /\ InFrame(draw_icon(ctx, id, r, "Text"), "draw_icon", id, {}, r)
    /\ UNCHANGED declared

\* The popup opened is remembered in declared, under its identifier.
OpenPopup(name) ==
    /\ InFrame(open_popup(ctx, name), "open_popup", name, {}, RectDefault)
    /\ declared' = declared \cup {[id |-> IdNew(name, Len(ctx.id_stack)),
                                   rect |-> RectDefault]}

BeginPopup(name) ==
    /\ InFrame(begin_popup(ctx, name), "begin_popup", name, PopupOptions,
               RectDefault)
    /\ UNCHANGED declared

EndPopup ==
    /\ InRoot
    /\ InFrame(end_popup(ctx), "end_popup", "", {}, RectDefault)
    /\ UNCHANGED declared

BeginPanel(name, options) ==
    /\ InRoot
    /\ InFrame(begin_panel(ctx, name, options), "begin_panel", name, options,
               RectDefault)
    /\ UNCHANGED declared

EndPanel ==
    /\ Len(ctx.container_stack) > 0
    /\ ~InRoot
    /\ InFrame(end_panel(ctx), "end_panel", "", {}, RectDefault)
    /\ UNCHANGED declared

Header(label, options) ==
    /\ Len(ctx.container_stack) > 0
    /\ InFrame(header(ctx, label, options), "header", label, options, RectDefault)
    /\ declared' = declared \cup {[id |-> IdNew(label, Len(ctx.id_stack)),
                                   rect |-> ctx'.last_rect]}

BeginTreenode(label, options) ==
    /\ Len(ctx.container_stack) > 0
    /\ InFrame(begin_treenode(ctx, label, options), "begin_treenode", label,
               options, RectDefault)
    /\ declared' = declared \cup {[id |-> IdNew(label, Len(ctx.id_stack)),
                                   rect |-> ctx'.last_rect]}

\* end_treenode closes the tree node that begin_treenode reported active:
\* its identifier is on the stack above the window's.
EndTreenode ==
    /\ Len(ctx.id_stack) > Len(ctx.container_stack)
    /\ InFrame(end_treenode(ctx), "end_treenode", "", {}, RectDefault)
    /\ UNCHANGED declared

\* The application expands a node itself.
InitTreenodePool(label) ==
    /\ InFrame(init_treenode_pool(ctx, IdNew(label, Len(ctx.id_stack))),
               "init_treenode_pool", label, {}, RectDefault)
    /\ UNCHANGED declared

\* The row asked for is remembered in last.rect: its height.
LayoutRow(widths, height) ==
    /\ Len(ctx.container_stack) > 0
    /\ InFrame(layout_row(ctx, widths, height), "layout_row", "", {},
               rect(0, 0, 0, height))
    /\ UNCHANGED declared

LayoutNext ==
    /\ Len(ctx.container_stack) > 0
    /\ InFrame(layout_next(ctx), "layout_next", "", {}, RectDefault)
    /\ UNCHANGED declared

\* The application writes the scroll offset of a container through
\* get_container_mut (lib.rs:623), as the demo does to show the end of its
\* log.
SetScroll(cnt_idx, y) ==
    /\ InFrame([ctx EXCEPT !.containers[cnt_idx + 1].scroll.y = y],
               "get_container_mut", "", {}, RectDefault)
    /\ UNCHANGED declared

\* create_id is public: the application makes identifiers of its own.
CreateId(item) ==
    /\ InFrame(create_id(ctx, item), "create_id", item, {}, RectDefault)
    /\ UNCHANGED declared

\* A call on the text buffer of the application.  A text is given as the
\* sequence of its characters, each the sequence of its bytes.
RECURSIVE Flatten(_)
Flatten(chars) == IF chars = <<>> THEN <<>> ELSE Head(chars) \o Flatten(Tail(chars))

StrCall(op, text, bytes, ret, err) ==
    /\ buf' = [bytes |-> bytes, ret |-> ret, err |-> err, before |-> buf.bytes]
    /\ DidText(op, text)
    /\ UNCHANGED <<ctx, phase, calls, pressed, delivered, drained, declared, focus0, updated0, blocks>>

PushStr(text) ==
    StrCall("push_str", text, push_str(buf.bytes, Flatten(text), StrCapacity),
            PushCount(buf.bytes, Flatten(text), StrCapacity), FALSE)

WriteStr(text) ==
    StrCall("write_str", text, write_str(buf.bytes, Flatten(text), StrCapacity),
            0, WriteErr(buf.bytes, Flatten(text), StrCapacity))

PopChar == StrCall("pop_char", <<>>, pop_char(buf.bytes), 0, FALSE)

\* Container::zindex is a public field and get_container_mut is public: the
\* application orders its windows by writing the z-index.
SetZIndex(cnt_idx, z) ==
    /\ InFrame([ctx EXCEPT !.containers[cnt_idx + 1].zindex = z],
               "get_container_mut", "zindex", {}, RectDefault)
    /\ UNCHANGED declared

\* init_container_pool is public: the application asks for a slot itself.
InitContainerPool(name) ==
    /\ InFrame(init_container_pool(ctx, IdNew(name, Len(ctx.id_stack))),
               "init_container_pool", name, {}, RectDefault)
    /\ UNCHANGED declared

\* The application looks a container up by its name.
ContainerIndexByName(name, options) ==
    /\ InFrame(container_index_by_name(ctx, name, options),
               "container_index_by_name", name, options, RectDefault)
    /\ UNCHANGED declared

\* Container::open is a public field: the application closes and opens a
\* container by writing it.
SetOpen(cnt_idx, open) ==
    /\ InFrame([ctx EXCEPT !.containers[cnt_idx + 1].open = open],
               "get_container_mut", "open", {}, RectDefault)
    /\ UNCHANGED declared

\* A window begun, remembered in declared with the rect it had when it was
\* begun: the stored rect, or the argument for a container without a width.
RectWhenBegun(title, arg) ==
    IF find_by_id(ctx.container_pool, IdNew(title, Len(ctx.id_stack))) = {} THEN arg
    ELSE IF At(ctx.containers,
               The(find_by_id(ctx.container_pool, IdNew(title, Len(ctx.id_stack))))).rect.w = 0
    THEN arg
    ELSE At(ctx.containers,
            The(find_by_id(ctx.container_pool, IdNew(title, Len(ctx.id_stack))))).rect

BeginWindowSeen(title, arg, options) ==
    /\ InFrame(begin_window(ctx, title, arg, options), "begin_window", title,
               options, arg)
    /\ declared' =
          IF Len(ctx'.root_list) > Len(ctx.root_list)
          THEN declared \cup {[id |-> IdNew(title, Len(ctx.id_stack)),
                                rect |-> RectWhenBegun(title, arg)]}
          ELSE declared

LayoutBeginColumn ==
    /\ Len(ctx.container_stack) > 0
    /\ InFrame(layout_begin_column(ctx), "layout_begin_column", "", {}, RectDefault)
    /\ UNCHANGED declared

LayoutEndColumn ==
    /\ InFrame(layout_end_column(ctx), "layout_end_column", "", {}, RectDefault)
    /\ UNCHANGED declared

\* The titles of the windows begun in this frame.
Begun(titles) ==
    {t \in titles :
        \E i \in 1..Len(ctx.root_list) :
            At(ctx.container_pool, ctx.root_list[i]).id = IdNew(t, 0)}

\* ------------------------------------------------------------------------
\* SpecDraw: an application that declares two windows without decoration
\* and draws into them.
\* ------------------------------------------------------------------------
Bare == {"NoFrame", "NoTitle", "NoResize", "NoScroll", "NoClose"}
RectA == rect(10, 10, 120, 100)
RectB == rect(60, 40, 120, 100)
WinRect(title) == IF title = "A" THEN RectA ELSE RectB

DrawBegin == ctx.frame < DrawMaxFrames /\ Begin

DrawBeginWindow ==
    /\ calls < DrawMaxCalls
    /\ Len(ctx.container_stack) = 0
    /\ \E t \in {"A", "B"} \ Begun({"A", "B"}) : BeginWindow(t, WinRect(t), Bare)

DrawDrawRect == calls < DrawMaxCalls /\ DrawRect(rect(70, 50, 10, 10), "Red")

\* A text that the clip rectangle of window A cuts.
DrawDrawText == calls < DrawMaxCalls /\ DrawText("hi", vec2(125, 50))

DrawEndWindow == calls < DrawMaxCalls /\ EndWindow

\* An icon drawn outside of every window.
DrawDrawIcon ==
    /\ calls < DrawMaxCalls
    /\ Len(ctx.container_stack) = 0
    /\ DrawIcon("Check", rect(5, 5, 10, 10))

NextDraw ==
    \/ DrawBegin
    \/ DrawBeginWindow
    \/ DrawDrawRect
    \/ DrawDrawText
    \/ DrawEndWindow
    \/ DrawDrawIcon
    \/ End
    \/ HandleCommands

SpecDraw == Init /\ [][NextDraw]_vars

\* ------------------------------------------------------------------------
\* Properties of the command stream (SpecDraw)
\* ------------------------------------------------------------------------
\* The positions of the commands of the drained list that are no Jump.
NonJump == {p \in 0..(Len(drained) - 1) : At(drained, p).type # "Jump"}

\* The root containers declared in the frame that was drained, and the
\* commands each of them appended: those between its head and its tail.
Roots == {ctx.root_list[i] : i \in 1..Len(ctx.root_list)}
CommandsOf(r) == {p \in NonJump : HeadOf(ctx, r) < p /\ p < TailOf(ctx, r)}
Deliveries(p) == {j \in 1..Len(delivered) : delivered[j] = p}
Drained == last.op = "handle_commands"

\* C1: after end(), handle_commands delivers the commands grouped by root
\* container in ascending z-index order: for root containers A and B of the
\* frame with z(A) < z(B), every command of A is delivered before any
\* command of B is, and none after; within one container the commands are
\* delivered in the order they were appended.
C1_ZOrderDelivery ==
    Drained =>
        /\ \A a, b \in Roots :
              ZOf(ctx, a) < ZOf(ctx, b) =>
                 \A pa \in CommandsOf(a), pb \in CommandsOf(b) :
                    \A j \in Deliveries(pb) :
                       /\ \E i \in Deliveries(pa) : i < j
                       /\ \A i \in Deliveries(pa) : i < j
        /\ \A r \in Roots :
              \A i, j \in 1..Len(delivered) :
                 (i < j /\ delivered[i] \in CommandsOf(r)
                        /\ delivered[j] \in CommandsOf(r))
                    => delivered[i] <= delivered[j]

\* Two windows with commands were drained, the lower one declared second.
C1_Witness ==
    /\ Drained
    /\ \E a, b \in Roots :
          /\ ZOf(ctx, a) < ZOf(ctx, b)
          /\ HeadOf(ctx, b) < HeadOf(ctx, a)
          /\ CommandsOf(a) # {} /\ CommandsOf(b) # {}

\* C2: handle_commands hands every command of the frame that is no Jump to
\* the handler exactly once.
C2_ExactlyOnce ==
    Drained => \A p \in NonJump : Cardinality(Deliveries(p)) = 1

\* A frame with a command in it was drained.
C2_Witness == Drained /\ NonJump # {}

\* C10: a draw call made when the command list holds COMMAND_LIST_SIZE
\* commands does not abort the program and records nothing.
C10_FullBufferNonFatal ==
    [][(/\ Len(ctx.command_list) = COMMAND_LIST_SIZE
        /\ last'.op \in {"draw_rect", "draw_text", "begin_window"})
          => (Ok(ctx') /\ ctx'.command_list = ctx.command_list)]_vars

\* The command list is full in the middle of a frame.
C10_Witness == phase = "frame" /\ Len(ctx.command_list) = COMMAND_LIST_SIZE

\* The command list holds something and its first command is no Jump.
StrayFirst(c) == Len(c.command_list) > 0 /\ At(c.command_list, 0).type # "Jump"

\* C11: when the command list is not empty at end() and its first command
\* is no Jump, end() panics, also when no root container was declared in
\* the frame; such a list is never left for handle_commands.
C11_StrayCommandIsFatal ==
    [][/\ (phase = "frame" /\ last'.op = "end" /\ StrayFirst(ctx)) => ~Ok(ctx')
       /\ phase' = "ended" => ~StrayFirst(ctx')]_vars

\* Something was drawn before any window of the frame was begun.
C11_Witness == phase = "frame" /\ StrayFirst(ctx)

\* One of the four stacks is not empty.
Unbalanced ==
    \/ Len(ctx.container_stack) > 0 \/ Len(ctx.clip_stack) > 0
    \/ Len(ctx.id_stack) > 0 \/ Len(ctx.layout_stack) > 0

\* C12: end() called with the container stack, the clip stack, the
\* identifier stack or the layout stack not empty panics, and nothing else
\* of the Context changes.
C12_UnbalancedEndIsFatal ==
    [][(phase = "frame" /\ last'.op = "end" /\ Unbalanced)
          => (~Ok(ctx') /\ [ctx' EXCEPT !.panic = ""] = ctx)]_vars

\* end() was called with a window still open.
C12_Witness ==
    /\ phase = "panic" /\ last.op = "end"
    /\ Len(ctx.container_stack) > 0 /\ Len(ctx.command_list) > 0

\* ------------------------------------------------------------------------
\* SpecInput: an application with a window A holding the buttons X and Y,
\* and a window B that overlaps A, driven by the mouse.  The body of A is
\* narrower than a button, so that the buttons reach out of A's clip
\* rectangle.
\* ------------------------------------------------------------------------
InputRectA == rect(10, 10, 60, 100)
InputRect(title) == IF title = "A" THEN InputRectA ELSE RectB

PosX == vec2(20, 20)        \* in A, over the first button of A
PosClipped == vec2(80, 20)  \* over the first button of A, right of A
PosBoth == vec2(65, 45)     \* in A and in B, over the second button of A
Positions == {PosX, PosClipped, PosBoth}

\* Y is declared with the option that holds the focus.
ButtonOptions(label) ==
    IF label = "Y" THEN {"AlignCenter", "HoldFocus"} ELSE {"AlignCenter"}

\* The window on top of the container stack is the one titled title.
InWindow(title) ==
    /\ Len(ctx.container_stack) > 0
    /\ At(ctx.container_pool, Last(ctx.container_stack)).id = IdNew(title, 0)

DeclaredIds == {d.id : d \in declared}

InputMove == \E pos \in Positions : InputMouseMove(pos)
InputDown == InputMouseDown(ctx.mouse_pos, "Left")
InputUp == InputMouseUp(ctx.mouse_pos, "Left")
InputSetFocus == ctx.focus_id = {} /\ \E l \in {"X", "Y"} : SetFocus(IdNew(l, 1))
InputBegin == ctx.frame < InputMaxFrames /\ Begin

\* A is declared first, with its two buttons in either order, then B or not.
InputBeginWindow ==
    /\ Len(ctx.container_stack) = 0
    /\ \E t \in {"A", "B"} \ Begun({"A", "B"}) :
          /\ t = "B" => "A" \in Begun({"A"})
          /\ BeginWindow(t, InputRect(t), Bare)

InputButton ==
    /\ InWindow("A")
    /\ \E l \in {"X", "Y"} :
          /\ IdNew(l, 1) \notin DeclaredIds
          /\ Button(l, ButtonOptions(l))

InputEndWindow == (InWindow("A") => Cardinality(declared) = 2) /\ EndWindow

InputEnd == Len(ctx.container_stack) = 0 /\ "A" \in Begun({"A"}) /\ End

NextInput ==
    \/ InputMove
    \/ InputDown
    \/ InputUp
    \/ InputSetFocus
    \/ InputBegin
    \/ InputBeginWindow
    \/ InputButton
    \/ InputEndWindow
    \/ InputEnd
    \/ HandleCommands

SpecInput == Init /\ [][NextInput]_vars

\* ------------------------------------------------------------------------
\* SpecWindow: an application that declares a window A with a title bar and
\* a resize handle, passing a rectangle of its choice every frame, among
\* other windows that compete with A for the slots of the container pool.
\* ------------------------------------------------------------------------
WindowOptions == {"NoFrame", "NoClose"}
RectNoWidth == rect(30, 30, 0, 50)
PosTitle == vec2(20, 15)
PosHandle == vec2(115, 95)
TitleId == IdNew("!title", 1)
ResizeId == IdNew("!resize", 1)

\* A is declared every frame, after D if D is declared, and before B and C.
WindowMove == \E pos \in {PosTitle, PosHandle} : InputMouseMove(pos)
WindowDown == InputMouseDown(ctx.mouse_pos, "Left")
WindowSetFocus == ctx.focus_id = {} /\ \E id \in {TitleId, ResizeId} : SetFocus(id)
WindowBegin == ctx.frame < WindowMaxFrames /\ Begin

WindowBeginA ==
    /\ calls < WindowMaxCalls
    /\ Len(ctx.container_stack) = 0
    /\ Begun({"A", "B", "C"}) = {}
    /\ \E arg \in {RectA, RectB, RectNoWidth} : BeginWindow("A", arg, WindowOptions)

WindowBeginOther ==
    /\ calls < WindowMaxCalls
    /\ Len(ctx.container_stack) = 0
    /\ \E t \in {"B", "C", "D"} \ Begun({"B", "C", "D"}) :
          /\ t = "D" => Begun({"A", "B", "C"}) = {}
          /\ t = "B" => Begun({"A", "C"}) = {"A"}
          /\ t = "C" => Begun({"A", "B"}) = {"A", "B"}
          /\ BeginWindow(t, RectB, Bare)

WindowEnd == Len(ctx.container_stack) = 0 /\ "A" \in Begun({"A"}) /\ End

NextWindow ==
    \/ WindowMove
    \/ WindowDown
    \/ WindowSetFocus
    \/ WindowBegin
    \/ WindowBeginA
    \/ WindowBeginOther
    \/ EndWindow
    \/ WindowEnd
    \/ HandleCommands

SpecWindow == Init /\ [][NextWindow]_vars

\* ------------------------------------------------------------------------
\* SpecPool: an application that asks for more containers than the pool
\* holds: windows, panels inside them, and popups.
\* ------------------------------------------------------------------------
PanelOptions == {"NoFrame", "NoScroll"}

\* The names of the panels begun in this frame.
BegunPanels ==
    {n \in {"P", "Q", "R"} :
        \E i \in 0..(CONTAINER_POOL_SIZE - 1) :
            /\ At(ctx.container_pool, i).id = IdNew(n, 1)
            /\ At(ctx.container_pool, i).last_update = ctx.frame}

PoolBegin == ctx.frame < PoolMaxFrames /\ Begin

\* A is declared before B.
PoolBeginWindow ==
    /\ calls < PoolMaxCalls
    /\ Len(ctx.container_stack) = 0
    /\ \E t \in {"A", "B"} \ Begun({"A", "B"}) :
          /\ t = "B" => "A" \in Begun({"A"})
          /\ BeginWindow(t, WinRect(t), Bare)

\* P is declared before Q, and Q before R.
PoolBeginPanel ==
    /\ calls < PoolMaxCalls
    /\ \E n \in {"P", "Q", "R"} \ BegunPanels :
          /\ n = "Q" => "P" \in BegunPanels
          /\ n = "R" => "Q" \in BegunPanels
          /\ BeginPanel(n, PanelOptions)

PoolEndPanel == calls < PoolMaxCalls /\ EndPanel

PoolOpenPopup == calls < PoolMaxCalls /\ InRoot /\ OpenPopup("M")

PoolEndWindow == calls < PoolMaxCalls /\ EndWindow

PoolEnd == Len(ctx.container_stack) = 0 /\ End

NextPool ==
    \/ PoolBegin
    \/ PoolBeginWindow
    \/ PoolBeginPanel
    \/ PoolEndPanel
    \/ PoolOpenPopup
    \/ PoolEndWindow
    \/ PoolEnd
    \/ HandleCommands

SpecPool == Init /\ [][NextPool]_vars

\* ------------------------------------------------------------------------
\* SpecPopup: an application with a window A that opens the popups M and N
\* and declares them inside A, driven by the mouse.
\* ------------------------------------------------------------------------
PosInside == vec2(20, 20)      \* in A
PosOutside == vec2(200, 200)   \* in no container

\* The container on top of the stack is the window A.
InA == InWindow("A")

\* The pointer moves while no button is down; the press is the last input.
PopupMove ==
    /\ ctx.mouse_down = {}
    /\ \E pos \in {PosInside, PosOutside} : InputMouseMove(pos)
PopupDown == InputMouseDown(ctx.mouse_pos, "Left")
PopupBegin == ctx.frame < PopupMaxFrames /\ Begin

PopupBeginWindow ==
    /\ Len(ctx.container_stack) = 0
    /\ Begun({"A"}) = {}
    /\ BeginWindow("A", RectA, Bare)

PopupOpenPopup ==
    /\ calls < PopupMaxCalls
    /\ InA
    /\ \E n \in {"M", "N"} : OpenPopup(n)

\* M is the popup the application declares; N is only opened.
PopupBeginPopup ==
    /\ calls < PopupMaxCalls
    /\ InA
    /\ BeginPopup("M")

\* end_popup follows a begin_popup that returned true.
PopupEndPopup == Len(ctx.container_stack) = 2 /\ EndPopup

PopupEndWindow == InA /\ EndWindow

PopupEnd == Len(ctx.container_stack) = 0 /\ "A" \in Begun({"A"}) /\ End

NextPopup ==
    \/ PopupMove
    \/ PopupDown
    \/ PopupBegin
    \/ PopupBeginWindow
    \/ PopupOpenPopup
    \/ PopupBeginPopup
    \/ PopupEndPopup
    \/ PopupEndWindow
    \/ PopupEnd
    \/ HandleCommands

SpecPopup == Init /\ [][NextPopup]_vars

\* ------------------------------------------------------------------------
\* SpecTree: a window with a header and a tree node, each shown with or
\* without Expanded; the application may expand a node itself, and the user
\* clicks.
\* ------------------------------------------------------------------------
HeaderOptions == {{}, {"Expanded"}}

TreeMove == \E pos \in {PosInside} : ctx.mouse_down = {} /\ InputMouseMove(pos)
TreeDown == ctx.mouse_pos = PosInside /\ InputMouseDown(ctx.mouse_pos, "Left")
TreeBegin == ctx.frame < TreeMaxFrames /\ Begin

TreeBeginWindow ==
    /\ Begun({"A"}) = {}
    /\ BeginWindow("A", RectA, Bare)

TreeHeader ==
    /\ calls < TreeMaxCalls /\ InA
    /\ \E o \in HeaderOptions : Header("H", o)

TreeBeginTreenode ==
    /\ calls < TreeMaxCalls /\ InA
    /\ \E o \in HeaderOptions : BeginTreenode("T", o)

TreeEndTreenode == InA /\ EndTreenode

TreeInitPool ==
    /\ calls < TreeMaxCalls /\ InA
    /\ \E n \in {"H", "T"} : InitTreenodePool(n)

TreeEndWindow ==
    /\ Len(ctx.container_stack) = 1
    /\ Len(ctx.id_stack) = 1
    /\ EndWindow

TreeEnd == Len(ctx.container_stack) = 0 /\ End

NextTree ==
    \/ TreeMove
    \/ TreeDown
    \/ TreeBegin
    \/ TreeBeginWindow
    \/ TreeHeader
    \/ TreeBeginTreenode
    \/ TreeEndTreenode
    \/ TreeInitPool
    \/ TreeEndWindow
    \/ TreeEnd
    \/ HandleCommands

SpecTree == Init /\ [][NextTree]_vars

\* ------------------------------------------------------------------------
\* SpecEvents: the events of the window system (wheel, keys, text, pointer)
\* arrive between frames that declare one window.
\* ------------------------------------------------------------------------
WheelDeltas == {vec2(0, 30), vec2(0, -30)}
Keys == {"Shift", "Return"}
Texts == {<<97>>, <<195, 169>>}

EventsScroll == \E d \in WheelDeltas : InputScroll(d)
EventsKeyDown == \E k \in Keys : InputKeyDown(k)
EventsKeyUp == \E k \in Keys : InputKeyUp(k)
EventsText == \E t \in Texts : InputText(t)
EventsMove == \E pos \in {PosInside} : InputMouseMove(pos)
EventsDown == InputMouseDown(ctx.mouse_pos, "Left")
EventsUp == InputMouseUp(ctx.mouse_pos, "Left")
EventsBegin == ctx.frame < EventsMaxFrames /\ Begin

EventsBeginWindow ==
    /\ Begun({"A"}) = {}
    /\ BeginWindow("A", RectA, Bare)

EventsEndWindow == InA /\ EndWindow
EventsEnd == Len(ctx.container_stack) = 0 /\ End

NextEvents ==
    \/ EventsScroll
    \/ EventsKeyDown
    \/ EventsKeyUp
    \/ EventsText
    \/ EventsMove
    \/ EventsDown
    \/ EventsUp
    \/ EventsBegin
    \/ EventsBeginWindow
    \/ EventsEndWindow
    \/ EventsEnd
    \/ HandleCommands

SpecEvents == Init /\ [][NextEvents]_vars

\* ------------------------------------------------------------------------
\* SpecScroll: a window, with or without NoScroll, whose content is one
\* cell taller than its body; the wheel turns between frames and the
\* application sets the scroll offset.
\* ------------------------------------------------------------------------
ScrollOptions == {Bare, Bare \ {"NoScroll"}}
SlotOf(title) == find_by_id(ctx.container_pool, IdNew(title, 0))

ScrollMove == \E pos \in {PosInside, PosOutside} : InputMouseMove(pos)
ScrollWheel == \E d \in WheelDeltas : d # ctx.scroll_delta /\ InputScroll(d)
ScrollBegin == ctx.frame < ScrollMaxFrames /\ Begin

ScrollBeginWindow ==
    /\ Begun({"A"}) = {}
    /\ \E o \in ScrollOptions : BeginWindow("A", RectA, o)

ScrollLayoutRow == calls < ScrollMaxCalls /\ InA /\ LayoutRow(<<100>>, 150)
ScrollLayoutNext == calls < ScrollMaxCalls /\ InA /\ LayoutNext

ScrollSetScroll ==
    /\ calls < ScrollMaxCalls /\ InA
    /\ \E y \in {30, At(ctx.containers, The(SlotOf("A"))).content_size.y} :
          /\ y # At(ctx.containers, The(SlotOf("A"))).scroll.y
          /\ SetScroll(The(SlotOf("A")), y)

ScrollEndWindow == InA /\ EndWindow
ScrollEnd == Len(ctx.container_stack) = 0 /\ End

NextScroll ==
    \/ ScrollMove
    \/ ScrollWheel
    \/ ScrollBegin
    \/ ScrollBeginWindow
    \/ ScrollLayoutRow
    \/ ScrollLayoutNext
    \/ ScrollSetScroll
    \/ ScrollEndWindow
    \/ ScrollEnd
    \/ HandleCommands

SpecScroll == Init /\ [][NextScroll]_vars

\* ------------------------------------------------------------------------
\* SpecLayout: a window in which rows are set and cells are taken; a tree
\* node indents the rows.
\* ------------------------------------------------------------------------
Rows == {<<<<100, -1>>, 0>>, <<<<-1>>, 30>>}

LayoutBegin == ctx.frame < LayoutMaxFrames /\ Begin

LayoutBeginWindow ==
    /\ Begun({"A"}) = {}
    /\ \E r \in {RectA, RectB} : BeginWindow("A", r, Bare)

LayoutLayoutRow ==
    /\ calls < LayoutMaxCalls /\ InA
    /\ \E r \in Rows : LayoutRow(r[1], r[2])

LayoutLayoutNext == calls < LayoutMaxCalls /\ InA /\ LayoutNext

LayoutBeginTreenode ==
    /\ calls < LayoutMaxCalls /\ InA
    /\ Len(ctx.id_stack) = 1
    /\ BeginTreenode("T", {"Expanded"})

LayoutEndTreenode == InA /\ EndTreenode

LayoutEndWindow ==
    /\ Len(ctx.container_stack) = 1
    /\ Len(ctx.id_stack) = 1
    /\ EndWindow

LayoutEnd == Len(ctx.container_stack) = 0 /\ End

NextLayout ==
    \/ LayoutBegin
    \/ LayoutBeginWindow
    \/ LayoutLayoutRow
    \/ LayoutLayoutNext
    \/ LayoutBeginTreenode
    \/ LayoutEndTreenode
    \/ LayoutEndWindow
    \/ LayoutEnd
    \/ HandleCommands

SpecLayout == Init /\ [][NextLayout]_vars

\* ------------------------------------------------------------------------
\* SpecId: identifiers are created outside of every window, in the windows
\* A and B and in a tree node, while the pointer moves.
\* ------------------------------------------------------------------------
IdKeys == {"!title", "ok"}

IdMove == \E pos \in {PosInside, PosOutside} : InputMouseMove(pos)
IdBegin == ctx.frame < IdMaxFrames /\ Begin

IdBeginWindow ==
    /\ Len(ctx.container_stack) = 0
    /\ \E t \in {"A", "B"} \ Begun({"A", "B"}) : BeginWindow(t, WinRect(t), Bare)

IdCreateId == calls < IdMaxCalls /\ \E k \in IdKeys : CreateId(k)

IdBeginTreenode ==
    /\ calls < IdMaxCalls
    /\ Len(ctx.container_stack) = 1 /\ Len(ctx.id_stack) = 1
    /\ BeginTreenode("T", {"Expanded"})

IdEndTreenode == Len(ctx.container_stack) = 1 /\ EndTreenode

IdEndWindow ==
    /\ Len(ctx.container_stack) = 1
    /\ Len(ctx.id_stack) = 1
    /\ EndWindow

IdEnd == Len(ctx.container_stack) = 0 /\ End

NextId ==
    \/ IdMove
    \/ IdBegin
    \/ IdBeginWindow
    \/ IdCreateId
    \/ IdBeginTreenode
    \/ IdEndTreenode
    \/ IdEndWindow
    \/ IdEnd
    \/ HandleCommands

SpecId == Init /\ [][NextId]_vars

\* ------------------------------------------------------------------------
\* SpecStr: texts of characters of 1 to 4 bytes ("X", "e" with an acute
\* accent, a CJK character, an emoji) are pushed and written into a buffer,
\* and characters are taken from its end.
\* ------------------------------------------------------------------------
CharX == <<88>>
CharE == <<195, 169>>
CharCJK == <<230, 157, 177>>
CharEmoji == <<240, 159, 146, 169>>

StrTexts ==
    {<<>>, <<CharX>>, <<CharE>>, <<CharCJK>>, <<CharEmoji>>,
     <<CharE, CharE, CharE, CharE>>, <<CharX, CharCJK>>, <<CharE, CharCJK>>}

StrPushStr == \E t \in StrTexts : PushStr(t)
StrWriteStr == \E t \in StrTexts : WriteStr(t)
StrPopChar == PopChar

NextStr ==
    \/ StrPushStr
    \/ StrWriteStr
    \/ StrPopChar

SpecStr == Init /\ [][NextStr]_vars

\* ------------------------------------------------------------------------
\* SpecSort: two windows whose z-indices the application writes.
\* ------------------------------------------------------------------------
SortBegin == ctx.frame < SortMaxFrames /\ Begin

SortBeginWindow ==
    /\ calls < SortMaxCalls
    /\ Len(ctx.container_stack) = 0
    /\ \E t \in {"A", "B"} \ Begun({"A", "B"}) : BeginWindow(t, WinRect(t), Bare)

SortEndWindow == calls < SortMaxCalls /\ EndWindow

SortSetZIndex ==
    /\ calls < SortMaxCalls
    /\ Len(ctx.container_stack) = 0
    /\ \E i \in 1..Len(ctx.root_list), z \in 1..2 :
          /\ z # ZOf(ctx, ctx.root_list[i])
          /\ SetZIndex(ctx.root_list[i], z)

NextSort ==
    \/ SortBegin
    \/ SortBeginWindow
    \/ SortEndWindow
    \/ SortSetZIndex
    \/ End
    \/ HandleCommands

SpecSort == Init /\ [][NextSort]_vars

\* ------------------------------------------------------------------------
\* SpecLru: slots of the container pool asked for over several frames.
\* ------------------------------------------------------------------------
LruNames == {"a", "b", "c", "d", "e"}

LruBegin == ctx.frame < LruMaxFrames /\ Begin

LruInit ==
    /\ calls < LruMaxCalls
    /\ \E name \in LruNames : InitContainerPool(name)

NextLru ==
    \/ LruBegin
    \/ LruInit
    \/ End
    \/ HandleCommands

SpecLru == Init /\ [][NextLru]_vars

\* ------------------------------------------------------------------------
\* SpecLookup: two windows that the application closes, opens and looks up.
\* ------------------------------------------------------------------------
LookupBegin == ctx.frame < LookupMaxFrames /\ Begin

LookupBeginWindow ==
    /\ calls < LookupMaxCalls
    /\ Len(ctx.container_stack) = 0
    /\ \E t \in {"A", "B"} \ Begun({"A", "B"}) : BeginWindow(t, WinRect(t), Bare)

LookupEndWindow == EndWindow

LookupSetOpen ==
    /\ calls < LookupMaxCalls
    /\ Len(ctx.container_stack) = 0
    /\ \E i \in 0..1 :
          /\ At(ctx.container_pool, i).id # IdDefault
          /\ SetOpen(i, ~At(ctx.containers, i).open)

LookupByName ==
    /\ calls < LookupMaxCalls
    /\ Len(ctx.container_stack) = 0
    /\ \E name \in {"A", "B"}, options \in {{}, {"Closed"}} :
          ContainerIndexByName(name, options)

NextLookup ==
    \/ LookupBegin
    \/ LookupBeginWindow
    \/ LookupEndWindow
    \/ LookupSetOpen
    \/ LookupByName
    \/ End
    \/ HandleCommands

SpecLookup == Init /\ [][NextLookup]_vars

\* ------------------------------------------------------------------------
\* SpecHover: two overlapping windows declared in either order, the pointer
\* in one of them, in both or in none.
\* ------------------------------------------------------------------------
PosOnlyB == vec2(170, 130)
HoverPositions == {PosX, PosBoth, PosOnlyB, PosOutside}

HoverMove == ctx.frame < HoverMaxFrames /\ \E pos \in HoverPositions : InputMouseMove(pos)
HoverBegin == ctx.frame < HoverMaxFrames /\ Begin

HoverBeginWindow ==
    /\ calls < HoverMaxCalls
    /\ Len(ctx.container_stack) = 0
    /\ \E t \in {"A", "B"} \ Begun({"A", "B"}) : BeginWindowSeen(t, WinRect(t), Bare)

HoverEndWindow == EndWindow

NextHover ==
    \/ HoverMove
    \/ HoverBegin
    \/ HoverBeginWindow
    \/ HoverEndWindow
    \/ End
    \/ HandleCommands

SpecHover == Init /\ [][NextHover]_vars

\* ------------------------------------------------------------------------
\* SpecColumn: a window in which rows are set, cells are taken and columns
\* are begun and ended.
\* ------------------------------------------------------------------------
ColumnRows == {<<<<50, -1>>, 0>>, <<<<-1>>, 30>>}

ColumnBegin == ctx.frame < ColumnMaxFrames /\ Begin

ColumnBeginWindow == Begun({"A"}) = {} /\ BeginWindow("A", RectA, Bare)

ColumnLayoutRow ==
    /\ calls < ColumnMaxCalls /\ InA
    /\ \E r \in ColumnRows : LayoutRow(r[1], r[2])

ColumnLayoutNext == calls < ColumnMaxCalls /\ InA /\ LayoutNext

ColumnBeginColumn == calls < ColumnMaxCalls /\ InA /\ LayoutBeginColumn

\* layout_end_column follows a layout_begin_column.
ColumnEndColumn == InA /\ Len(ctx.layout_stack) > 1 /\ LayoutEndColumn

ColumnEndWindow == Len(ctx.layout_stack) = 1 /\ EndWindow

ColumnEnd == Len(ctx.container_stack) = 0 /\ End

NextColumn ==
    \/ ColumnBegin
    \/ ColumnBeginWindow
    \/ ColumnLayoutRow
    \/ ColumnLayoutNext
    \/ ColumnBeginColumn
    \/ ColumnEndColumn
    \/ ColumnEndWindow
    \/ ColumnEnd
    \/ HandleCommands

SpecColumn == Init /\ [][NextColumn]_vars

\* ------------------------------------------------------------------------
\* SpecSkip: three windows without decoration, declared in the order A, B,
\* C; a frame may leave any of them out.
\* ------------------------------------------------------------------------
SkipBegin == ctx.frame < SkipMaxFrames /\ Begin

SkipBeginWindow ==
    /\ calls < SkipMaxCalls
    /\ Len(ctx.container_stack) = 0
    /\ \E t \in {"A", "B", "C"} \ Begun({"A", "B", "C"}) :
          /\ t = "A" => Begun({"B", "C"}) = {}
          /\ t = "B" => Begun({"C"}) = {}
          /\ BeginWindow(t, WinRect(t), Bare)

SkipDrawRect == calls < SkipMaxCalls /\ DrawRect(rect(70, 50, 10, 10), "Red")

SkipEndWindow == calls < SkipMaxCalls /\ EndWindow

NextSkip ==
    \/ SkipBegin
    \/ SkipBeginWindow
    \/ SkipDrawRect
    \/ SkipEndWindow
    \/ End
    \/ HandleCommands

SpecSkip == Init /\ [][NextSkip]_vars

\* ------------------------------------------------------------------------
\* SpecFocus: an application that declares a window A whose two buttons X
\* and Y are each declared or left out in every frame, moves and presses the
\* mouse, and gives the focus to X or Y between two frames.
\* ------------------------------------------------------------------------
FocusMove == \E pos \in {PosX, PosBoth} : InputMouseMove(pos)
FocusDown == InputMouseDown(ctx.mouse_pos, "Left")
FocusUp == InputMouseUp(ctx.mouse_pos, "Left")
FocusSet == \E l \in {"X", "Y"} : SetFocus(IdNew(l, 1))
FocusBegin == ctx.frame < FocusMaxFrames /\ Begin

FocusBeginWindow ==
    /\ Len(ctx.container_stack) = 0
    /\ "A" \notin Begun({"A"})
    /\ BeginWindow("A", InputRectA, Bare)

FocusButton ==
    /\ InWindow("A")
    /\ \E l \in {"X", "Y"} :
          /\ IdNew(l, 1) \notin DeclaredIds
          /\ Button(l, ButtonOptions(l))

FocusEndWindow == EndWindow

FocusEnd == Len(ctx.container_stack) = 0 /\ "A" \in Begun({"A"}) /\ End

NextFocus ==
    \/ FocusMove
    \/ FocusDown
    \/ FocusUp
    \/ FocusSet
    \/ FocusBegin
    \/ FocusBeginWindow
    \/ FocusButton
    \/ FocusEndWindow
    \/ FocusEnd
    \/ HandleCommands

SpecFocus == Init /\ [][NextFocus]_vars

\* ------------------------------------------------------------------------
\* SpecClose: an application that declares a window A with a title bar and
\* a close button, windows B, C and D without decoration that fill the
\* container pool, and a popup M that it never opens; the user clicks, and
\* the application may set the open flag of A again.
\* ------------------------------------------------------------------------
CloseOptions == {"NoResize", "NoScroll"}
PosClose == vec2(115, 20)      \* over the close button of A
CloseTitles == <<"A", "B", "C", "D">>
CloseWinOptions(t) == IF t = "A" THEN CloseOptions ELSE Bare

\* The slot of window A, if it has one.
SlotOfA == find_by_id(ctx.container_pool, IdNew("A", 0))

CloseMove == ctx.frame < CloseMaxFrames /\ InputMouseMove(PosClose)
CloseDown ==
    /\ ctx.frame < CloseMaxFrames
    /\ ctx.mouse_pos = PosClose
    /\ InputMouseDown(ctx.mouse_pos, "Left")
CloseUp == ctx.frame < CloseMaxFrames /\ InputMouseUp(ctx.mouse_pos, "Left")
CloseBegin == ctx.frame < CloseMaxFrames /\ Begin

\* The windows are declared in the order A, B, C, D; A may be left out, and
\* so may D, or C and D, or all three.  A call that returned false is not
\* repeated at once.
CloseBeginWindow ==
    /\ Len(ctx.container_stack) = 0
    /\ \E i \in 1..Len(CloseTitles) :
          /\ \A j \in i..Len(CloseTitles) : CloseTitles[j] \notin Begun({CloseTitles[j]})
          /\ i > 2 => CloseTitles[i - 1] \in Begun({CloseTitles[i - 1]})
          /\ last.arg # CloseTitles[i]
          /\ BeginWindow(CloseTitles[i], WinRect(CloseTitles[i]),
                         CloseWinOptions(CloseTitles[i]))

\* The popup is the first declaration of a frame.
CloseBeginPopup ==
    /\ calls = 0
    /\ BeginPopup("M")

CloseEndWindow == EndWindow

CloseSetOpen ==
    /\ Len(ctx.root_list) = 0
    /\ SlotOfA # {}
    /\ ~At(ctx.containers, The(SlotOfA)).open
    /\ SetOpen(The(SlotOfA), TRUE)

CloseEnd == Len(ctx.container_stack) = 0 /\ End

NextClose ==
    \/ CloseMove
    \/ CloseDown
    \/ CloseUp
    \/ CloseBegin
    \/ CloseBeginWindow
    \/ CloseBeginPopup
    \/ CloseEndWindow
    \/ CloseSetOpen
    \/ CloseEnd
    \/ HandleCommands

SpecClose == Init /\ [][NextClose]_vars

\* ------------------------------------------------------------------------
\* SpecNest: an application that nests a window A, a popup M, panels P and
\* Q, a tree node T and layout columns in any order, ends a block only as
\* the innermost open one, and calls end() at any time.  The container
\* pool has fewer slots than there are containers.
\* ------------------------------------------------------------------------
Innermost(op) == blocks # <<>> /\ Last(blocks).op = op
InBlock == blocks # <<>> /\ Last(blocks).op # "refused"

NestBegin == ctx.frame < NestMaxFrames /\ Begin

NestBeginWindow ==
    /\ calls < NestMaxCalls
    /\ blocks = <<>>
    /\ Begun({"A"}) = {}
    /\ BeginWindow("A", RectA, Bare)

NestOpenPopup ==
    /\ calls < NestMaxCalls
    /\ Innermost("begin_window")
    /\ \A d \in declared : d.id.key # "M"
    /\ OpenPopup("M")

\* The containers named name that were asked for in this frame.
Asked(name) ==
    {i \in 0..(CONTAINER_POOL_SIZE - 1) :
        /\ At(ctx.container_pool, i).id # IdDefault
        /\ At(ctx.container_pool, i).id.key = name
        /\ At(ctx.container_pool, i).last_update = ctx.frame}

\* The popup is begun once it was opened, in window A or deeper.
NestBeginPopup ==
    /\ calls < NestMaxCalls
    /\ InBlock
    /\ \A i \in 1..Len(ctx.root_list) :
          At(ctx.container_pool, ctx.root_list[i]).id.key # "M"
    /\ \E d \in declared : d.id.key = "M"
    /\ BeginPopup("M")

\* P is asked for before Q, each once in a frame.
NestBeginPanel ==
    /\ calls < NestMaxCalls
    /\ InBlock
    /\ last.op # "begin_panel"
    /\ \E n \in {"P", "Q"} :
          /\ Asked(n) = {}
          /\ n = "Q" => Asked("P") # {}
          /\ BeginPanel(n, {"NoFrame", "NoScroll"})

\* The tree node is declared once in a frame.
NestBeginTreenode ==
    /\ calls < NestMaxCalls
    /\ InBlock
    /\ \A d \in declared : d.id.key # "T"
    /\ \E o \in HeaderOptions : BeginTreenode("T", o)

\* Columns are not nested in columns.
NestBeginColumn ==
    /\ calls < NestMaxCalls
    /\ InBlock
    /\ \A i \in 1..Len(blocks) : blocks[i].op # "layout_begin_column"
    /\ last.op # "layout_end_column"
    /\ LayoutBeginColumn

NestEndWindow == Innermost("begin_window") /\ EndWindow
NestEndPopup == Innermost("begin_popup") /\ EndPopup
NestEndPanel == Innermost("begin_panel") /\ EndPanel
NestEndTreenode == Innermost("begin_treenode") /\ EndTreenode
NestEndColumn == Innermost("layout_begin_column") /\ LayoutEndColumn

NextNest ==
    \/ NestBegin
    \/ NestBeginWindow
    \/ NestOpenPopup
    \/ NestBeginPopup
    \/ NestBeginPanel
    \/ NestBeginTreenode
    \/ NestBeginColumn
    \/ NestEndWindow
    \/ NestEndPopup
    \/ NestEndPanel
    \/ NestEndTreenode
    \/ NestEndColumn
    \/ End
    \/ HandleCommands

SpecNest == Init /\ [][NextNest]_vars

\* ------------------------------------------------------------------------
\* SpecClick: an application that declares a window A with one header H,
\* with or without Expanded, in every frame; the user moves the pointer
\* over the header and clicks, and the application may expand the header
\* itself.
\* ------------------------------------------------------------------------
ClickMove == ctx.mouse_down = {} /\ InputMouseMove(PosInside)
ClickDown == ctx.mouse_pos = PosInside /\ InputMouseDown(ctx.mouse_pos, "Left")
ClickUp == InputMouseUp(ctx.mouse_pos, "Left")
ClickBegin == ctx.frame < ClickMaxFrames /\ Begin

ClickBeginWindow ==
    /\ Begun({"A"}) = {}
    /\ BeginWindow("A", RectA, Bare)

ClickInitPool ==
    /\ InA /\ calls = 1
    /\ find_by_id(ctx.treenode_pool, IdNew("H", 1)) = {}
    /\ InitTreenodePool("H")

ClickHeader ==
    /\ InA
    /\ IdNew("H", 1) \notin DeclaredIds
    /\ \E o \in HeaderOptions : Header("H", o)

ClickEndWindow == InA /\ IdNew("H", 1) \in DeclaredIds /\ EndWindow

ClickEnd == Len(ctx.container_stack) = 0 /\ "A" \in Begun({"A"}) /\ End

NextClick ==
    \/ ClickMove
    \/ ClickDown
    \/ ClickUp
    \/ ClickBegin
    \/ ClickBeginWindow
    \/ ClickInitPool
    \/ ClickHeader
    \/ ClickEndWindow
    \/ ClickEnd
    \/ HandleCommands

SpecClick == Init /\ [][NextClick]_vars

\* ------------------------------------------------------------------------
\* Properties of hover and focus (SpecInput).  They are about the step that
\* declares a button: its identifier, the rectangle the layout gave it, and
\* where the pointer is.
\* ------------------------------------------------------------------------
ButtonStep == phase = "frame" /\ last'.op = "button" /\ Ok(ctx')
ButtonId == IdNew(last'.arg, Len(ctx.id_stack))
ButtonRect == ctx'.last_rect
Over(r) == overlaps(r, ctx.mouse_pos)
InClip == overlaps(Last(ctx.clip_stack), ctx.mouse_pos)

\* The innermost root container around the widget being declared.
EnclosingRoot ==
    ctx.container_stack[
        CHOOSE i \in 1..Len(ctx.container_stack) :
            /\ At(ctx.containers, ctx.container_stack[i]).head # {}
            /\ \A j \in (i + 1)..Len(ctx.container_stack) :
                  At(ctx.containers, ctx.container_stack[j]).head = {}]

\* C3: a click produces a submit.  When input_mouse_down(Left) was called
\* since the last frame and the button is the hovered widget, the pointer
\* inside it and its window the hover root, button() gives the button the
\* focus and returns submit; when input_mouse_down was not called since the
\* last frame, button() does not return submit.
C3_ClickSubmits ==
    [][ButtonStep =>
          /\ ("Left" \in pressed /\ ctx.hover_id = {ButtonId} /\ Over(ButtonRect)
                /\ InClip /\ ctx.hover_root = {EnclosingRoot})
                => (ctx'.focus_id = {ButtonId} /\ ctx'.resp.submit)
          /\ pressed = {} => ~ctx'.resp.submit]_vars

\* A hovered button was declared after the press, the pointer inside it.
C3_Witness ==
    /\ phase = "frame" /\ last.op = "button" /\ "Left" \in pressed
    /\ ctx.hover_id = {IdNew(last.arg, 1)}
    /\ overlaps(ctx.last_rect, ctx.mouse_pos)
    /\ ctx.hover_root = {Last(ctx.container_stack)}

\* C4: at most one identifier is focused; and when y was focused at the
\* start of a frame in which input_mouse_down was called with the pointer
\* over another widget x and not over y, both declared in the frame, y is
\* not focused once end() has run.
C4_FocusMovesOnPress ==
    [][/\ Cardinality(ctx'.focus_id) <= 1
       /\ (phase = "frame" /\ last'.op = "end" /\ Ok(ctx') /\ "Left" \in pressed)
             => \A x, y \in declared :
                   (x.id # y.id /\ focus0 = {y.id} /\ Over(x.rect) /\ ~Over(y.rect))
                      => ctx'.focus_id # {y.id}]_vars

\* Both widgets are declared, the one focused at the start of the frame is
\* not under the pointer, the other is, and the mouse was pressed.
C4_Witness ==
    /\ phase = "frame" /\ "Left" \in pressed
    /\ \E x, y \in declared :
          /\ x.id # y.id /\ focus0 = {y.id}
          /\ overlaps(x.rect, ctx.mouse_pos) /\ ~overlaps(y.rect, ctx.mouse_pos)

\* C5: update_widget on the focused widget clears the focus when the mouse
\* was pressed with the pointer not over the widget, clears it when no
\* mouse button is down and the widget is declared without HoldFocus, and
\* keeps it when no mouse button is down and the widget is declared with
\* HoldFocus.
C5_FocusLoss ==
    [][(ButtonStep /\ ctx.focus_id = {ButtonId}) =>
          /\ ("Left" \in pressed /\ ~Over(ButtonRect)) => ctx'.focus_id # {ButtonId}
          /\ (ctx.mouse_down = {} /\ pressed = {} /\ "HoldFocus" \notin last'.opts)
                => ctx'.focus_id # {ButtonId}
          /\ (ctx.mouse_down = {} /\ pressed = {} /\ "HoldFocus" \in last'.opts)
                => ctx'.focus_id = {ButtonId}]_vars

\* The widget focused at the start of the frame was declared with no mouse
\* button down.
C5_Witness ==
    /\ phase = "frame" /\ last.op = "button" /\ focus0 = {IdNew(last.arg, 1)}
    /\ ctx.mouse_down = {} /\ pressed = {}

\* C6: update_widget gives the focus to id when id is the hovered
\* identifier and the mouse was pressed, and only then; when id is hovered,
\* the mouse was not pressed and the pointer is not over the widget, the
\* hover is cleared.
C6_FocusGain ==
    [][ButtonStep =>
          /\ (ctx'.hover_id = {ButtonId} /\ "Left" \in pressed)
                => ctx'.focus_id = {ButtonId}
          /\ (ctx'.focus_id = {ButtonId} /\ ctx.focus_id # {ButtonId})
                => (ctx'.hover_id = {ButtonId} /\ "Left" \in pressed)
          /\ (ctx.hover_id = {ButtonId} /\ pressed = {} /\ ~Over(ButtonRect))
                => ctx'.hover_id # {ButtonId}]_vars

\* The hovered widget was declared in a frame the mouse was pressed before.
C6_Witness ==
    /\ phase = "frame" /\ last.op = "button" /\ pressed = {"Left"}
    /\ ctx.hover_id = {IdNew(last.arg, 1)}

\* C7: update_widget without NoInteract makes id the hovered identifier
\* when the pointer is inside the rectangle and inside the clip rectangle,
\* no mouse button is down and the enclosing root container is the hover
\* root; it does not make id hovered when a mouse button is down or when
\* the enclosing root container is not the hover root.
C7_Hover ==
    [][(ButtonStep /\ "NoInteract" \notin last'.opts) =>
          /\ (Over(ButtonRect) /\ InClip /\ ctx.mouse_down = {}
                /\ ctx.hover_root = {EnclosingRoot})
                => ctx'.hover_id = {ButtonId}
          /\ ((ctx.mouse_down # {} \/ ctx.hover_root # {EnclosingRoot})
                /\ ctx.hover_id # {ButtonId})
                => ctx'.hover_id # {ButtonId}]_vars

\* A widget became hovered: it was declared with the pointer inside it and
\* no mouse button down, in the window that is the hover root.
C7_Witness ==
    /\ phase = "frame" /\ last.op = "button" /\ ctx.mouse_down = {}
    /\ overlaps(ctx.last_rect, ctx.mouse_pos)
    /\ ctx.hover_root = {Last(ctx.container_stack)}
    /\ ctx.hover_id = {IdNew(last.arg, 1)}

\* ------------------------------------------------------------------------
\* Properties of the stored rectangle (SpecWindow)
\* ------------------------------------------------------------------------
\* The title bar or the resize handle is being dragged.
Dragging(c) ==
    "Left" \in c.mouse_down /\ (c.focus_id = {TitleId} \/ c.focus_id = {ResizeId})

Slots == 0..(CONTAINER_POOL_SIZE - 1)

\* C8: the rectangle of a container whose slot is not evicted, that is not
\* being dragged or resized and is not declared with AutoSize, is changed by
\* no call but the begin_window of a window whose stored width is 0, which
\* stores the rectangle argument; whatever rectangle is passed to
\* begin_window otherwise, the stored rectangle stays.
C8_RectPersists ==
    [][\A i \in Slots :
          (/\ Ok(ctx')
           /\ At(ctx'.container_pool, i).id = At(ctx.container_pool, i).id
           /\ ~Dragging(ctx) /\ ~Dragging(ctx')
           /\ "AutoSize" \notin last'.opts)
          => At(ctx'.containers, i).rect =
                IF /\ last'.op = "begin_window" /\ ctx'.ret
                   /\ At(ctx.container_pool, i).id = IdNew(last'.arg, 0)
                   /\ At(ctx.containers, i).rect.w = 0
                THEN last'.rect
                ELSE At(ctx.containers, i).rect]_vars

\* Window A was declared again, in a later frame, with another rectangle
\* than the one it has.
C8_Witness ==
    /\ phase = "frame" /\ last.op = "begin_window" /\ last.arg = "A" /\ ctx.ret
    /\ ctx.frame >= 2 /\ ~Dragging(ctx)
    /\ \E i \in Slots :
          /\ At(ctx.container_pool, i).id = IdNew("A", 0)
          /\ At(ctx.containers, i).rect.w # 0
          /\ At(ctx.containers, i).rect # last.rect

\* ------------------------------------------------------------------------
\* Properties of the container pool (SpecPool)
\* ------------------------------------------------------------------------
\* Every slot of the pool was touched in this frame.
Exhausted == \A i \in Slots : At(ctx.container_pool, i).last_update = ctx.frame

\* The name asked for is in no slot.
NewName == find_by_id(ctx.container_pool, IdNew(last'.arg, Len(ctx.id_stack))) = {}

\* C9: when every slot of the container pool was touched in this frame,
\* begin_window and begin_panel with a new name return false and open_popup
\* with a new name does nothing, none of them aborting; and end(), called
\* with every container that opened closed, fails no assertion.
C9_ExhaustedPoolIsHarmless ==
    [][phase = "frame" =>
          /\ (Exhausted /\ NewName /\ last'.op \in {"begin_window", "begin_panel"})
                => (Ok(ctx') /\ ~ctx'.ret)
          /\ (Exhausted /\ NewName /\ last'.op = "open_popup")
                => (/\ Ok(ctx')
                    /\ ctx'.containers = ctx.containers
                    /\ ctx'.container_pool = ctx.container_pool)
          /\ (last'.op = "end" /\ Len(ctx.container_stack) = 0)
                => ctx'.panic # "assertion failed: stack not empty at end()"]_vars

\* A window was refused because every slot was touched in this frame.
C9_Witness ==
    /\ phase = "frame" /\ Exhausted
    /\ last.op = "begin_window" /\ ~ctx.ret
    /\ find_by_id(ctx.container_pool, IdNew(last.arg, 0)) = {}

\* ------------------------------------------------------------------------
\* Properties of popups (SpecPopup).  They are about the step that calls
\* open_popup or begin_popup with the name last'.arg.
\* ------------------------------------------------------------------------
PopupStep == phase = "frame" /\ last'.op = "begin_popup"
NamedId == IdNew(last'.arg, Len(ctx.id_stack))

\* The slot that holds the name once the call has returned.
NamedSlot == The(find_by_id(ctx'.container_pool, NamedId))

\* open_popup was called for the name earlier in this frame.
OpenedNow == \E d \in declared : d.id = NamedId

\* The container of slot i is above every other container.
OnTop(c, i) ==
    \A j \in Slots \ {i} : At(c.containers, i).zindex > At(c.containers, j).zindex

\* begin_popup for a name that is in no slot returns false and changes
\* neither the pool, the containers, the z-index, the commands nor a stack.
NeverOpenedIsNoOp ==
    (PopupStep /\ NewName) =>
        /\ Ok(ctx') /\ ~ctx'.ret
        /\ ctx'.container_pool = ctx.container_pool
        /\ ctx'.containers = ctx.containers
        /\ ctx'.last_zindex = ctx.last_zindex
        /\ ctx'.command_list = ctx.command_list
        /\ ctx'.root_list = ctx.root_list
        /\ ctx'.container_stack = ctx.container_stack
        /\ ctx'.clip_stack = ctx.clip_stack
        /\ ctx'.id_stack = ctx.id_stack
        /\ ctx'.layout_stack = ctx.layout_stack

\* C13 as stated: begin_popup for a popup that was never opened returns
\* false and changes nothing; begin_popup after open_popup in the same
\* frame returns true, the popup is above every other container and it is
\* still open, whatever was pressed.
C13_PopupAsStated ==
    [][/\ NeverOpenedIsNoOp
       /\ (PopupStep /\ OpenedNow /\ Ok(ctx'))
             => /\ ctx'.ret
                /\ OnTop(ctx', NamedSlot)
                /\ At(ctx'.containers, NamedSlot).open]_vars

\* C13 amended: begin_popup for a popup that was never opened returns false
\* and changes nothing; open_popup leaves the popup above every other
\* container; begin_popup after open_popup in the same frame returns true,
\* the popup is still open whatever was pressed, and it is above every
\* other container if no container was created or opened since.
C13_PopupOpens ==
    [][/\ NeverOpenedIsNoOp
       /\ (phase = "frame" /\ last'.op = "open_popup" /\ Ok(ctx'))
             => OnTop(ctx', NamedSlot)
       /\ (PopupStep /\ OpenedNow /\ Ok(ctx'))
             => /\ ctx'.ret
                /\ At(ctx'.containers, NamedSlot).open
                /\ At(ctx.containers, NamedSlot).zindex = ctx.last_zindex
                      => OnTop(ctx', NamedSlot)]_vars

\* A popup opened in this frame, after a press, was begun and is open.
C13_Witness ==
    /\ phase = "frame" /\ last.op = "begin_popup" /\ ctx.ret
    /\ "Left" \in pressed
    /\ \E d \in declared : d.id = IdNew(last.arg, 1)

\* C14: an open popup, opened in an earlier frame, is closed by begin_popup
\* in a frame in which the mouse was pressed while the popup is not the
\* hover root, also when there is no hover root.
C14_PopupClosesOnPressOutside ==
    [][(/\ PopupStep /\ Ok(ctx') /\ ~NewName /\ ~OpenedNow
        /\ At(ctx.containers, NamedSlot).open
        /\ "Left" \in pressed
        /\ ctx.hover_root # {NamedSlot})
          => ~At(ctx'.containers, NamedSlot).open]_vars

\* A popup opened in an earlier frame was begun, open, after a press, the
\* popup not being the hover root.
C14_Witness ==
    /\ phase = "frame" /\ last.op = "begin_popup" /\ ctx.ret
    /\ "Left" \in pressed /\ declared = {}
    /\ ctx.hover_root # {Last(ctx.container_stack)}

\* ------------------------------------------------------------------------
\* Properties of headers and tree nodes (SpecTree)
\* ------------------------------------------------------------------------
\* A step that is a header or begin_treenode call which returned.
TreeStep ==
    /\ phase = "frame"
    /\ last'.op \in {"header", "begin_treenode"}
    /\ Ok(ctx')

\* The identifier of the header of that step is in the treenode pool when
\* the call is made.
InTreenodePool ==
    find_by_id(ctx.treenode_pool, IdNew(last'.arg, Len(ctx.id_stack))) # {}

\* C15 as stated: whatever the options, the header reports active exactly
\* when its identifier is in the treenode pool at the time of the call.
C15_ActiveIffInPool ==
    [][TreeStep => (ctx'.resp.active <=> InTreenodePool)]_vars

\* C15, amended: without Expanded a header or tree node reports active
\* exactly when its identifier is in the treenode pool at the time of the
\* call; with Expanded it reports active exactly when its identifier is
\* not in the pool.
C15_ActiveFollowsPool ==
    [][TreeStep =>
          (ctx'.resp.active <=>
              IF "Expanded" \in last'.opts THEN ~InTreenodePool
              ELSE InTreenodePool)]_vars

\* A header with Expanded whose identifier was in the pool has reported
\* that it is not active.
C15_Witness ==
    /\ phase = "frame"
    /\ last.op \in {"header", "begin_treenode"}
    /\ "Expanded" \in last.opts
    /\ ~ctx.resp.active
    /\ \E i \in 1..TREENODE_POOL_SIZE : ctx.treenode_pool[i].id.key = last.arg

\* ------------------------------------------------------------------------
\* Properties of the input state (SpecEvents)
\* ------------------------------------------------------------------------
\* C16: each input_scroll between two frames adds its movement to the
\* scroll delta that is pending for the next frame.
C16_ScrollAccumulates ==
    [][last'.op = "input_scroll" =>
          ctx'.scroll_delta = vec2(ctx.scroll_delta.x + last'.rect.x,
                                   ctx.scroll_delta.y + last'.rect.y)]_vars

\* A movement of the wheel is pending and no frame has begun yet.
C16_Witness == phase = "input" /\ ctx.scroll_delta # Vec2ZERO

\* What is edge-triggered, and what is level state.
Edges(c) == <<c.mouse_pressed, c.mouse_released, c.key_pressed, c.text_input>>
Levels(c) == <<c.mouse_down, c.key_down, c.mouse_pos>>

\* The event of the step is in the edge-triggered state after it.
EdgeRecorded ==
    /\ last'.op = "input_mouse_down" => last'.arg \in ctx'.mouse_pressed
    /\ last'.op = "input_mouse_up" => last'.arg \in ctx'.mouse_released
    /\ last'.op = "input_key_down" => last'.arg \in ctx'.key_pressed
    /\ last'.op = "input_text" =>
          ctx'.text_input = push_str(ctx.text_input, last'.text, MAX_TEXT_STORE)

\* C17: an edge-triggered input is recorded when it arrives, stays as it is
\* through begin() and the declarations of the frame, and is cleared by
\* end(); begin() and end() leave the level state as it is.
C17_EdgesLastOneFrame ==
    [][/\ EdgeRecorded
       /\ (phase' = "frame" /\ Ok(ctx')) => Edges(ctx') = Edges(ctx)
       /\ (last'.op = "end" /\ Ok(ctx')) => Edges(ctx') = <<{}, {}, {}, <<>>>>
       /\ last'.op \in {"begin", "end"} => Levels(ctx') = Levels(ctx)]_vars

\* A button was pressed and the frame that follows has begun.
C17_Witness == phase = "frame" /\ "Left" \in pressed

\* ------------------------------------------------------------------------
\* Properties of scrolling (SpecScroll)
\* ------------------------------------------------------------------------
\* A step that begins the window A with scrollbars, and returns.
ScrollStep ==
    /\ phase = "frame"
    /\ last'.op = "begin_window"
    /\ "NoScroll" \notin last'.opts
    /\ SlotOf("A") # {}
    /\ Ok(ctx')

ScrolledBefore == At(ctx.containers, The(SlotOf("A")))
ScrolledAfter == At(ctx'.containers, The(SlotOf("A")))

\* The largest offset of the window on the vertical axis: the content size
\* of the last frame and twice the padding, less the height of the body.
MaxScrollY == ScrolledBefore.content_size.y + 2 * StylePadding - ScrolledAfter.body.h

\* C18: after begin_window without NoScroll the vertical offset is 0 if
\* the largest offset is not positive, and otherwise the offset the window
\* had, clamped between 0 and the largest offset (no scrollbar is dragged).
C18_ScrollClamped ==
    [][(ScrollStep /\ ScrolledAfter.body.h > 0 /\ "Left" \notin ctx.mouse_down) =>
          ScrolledAfter.scroll.y =
              IF MaxScrollY <= 0 THEN 0
              ELSE Clamp(ScrolledBefore.scroll.y, 0, MaxScrollY)]_vars

\* In a frame, before the window is begun: its content overflows its body
\* and its offset is positive and in range.
C18_Witness ==
    /\ phase = "frame" /\ Begun({"A"}) = {} /\ SlotOf("A") # {}
    /\ At(ctx.containers, The(SlotOf("A"))).scroll.y > 0
    /\ At(ctx.containers, The(SlotOf("A"))).scroll.y <=
          At(ctx.containers, The(SlotOf("A"))).content_size.y + 2 * StylePadding
            - At(ctx.containers, The(SlotOf("A"))).body.h

\* The scroll offsets of all the containers.
Scrolls(c) == [i \in 1..CONTAINER_POOL_SIZE |-> c.containers[i].scroll]

\* C19: a window begun with scrollbars whose content overflows its body and
\* whose body is under the pointer becomes the scroll target; end() adds
\* the scroll delta to the offset of the scroll target, once, and to no
\* other offset, and resets the delta; with no scroll target end() changes
\* no offset.
C19_WheelScrollsTarget ==
    [][/\ (/\ ScrollStep /\ MaxScrollY > 0 /\ ScrolledAfter.body.h > 0
           /\ ctx.hover_root = SlotOf("A")
           /\ overlaps(ScrolledAfter.body, ctx.mouse_pos))
          => ctx'.scroll_target = SlotOf("A")
       /\ (phase = "frame" /\ last'.op = "end" /\ Ok(ctx')) =>
             /\ ctx'.scroll_delta = Vec2ZERO
             /\ Scrolls(ctx') =
                   [i \in 1..CONTAINER_POOL_SIZE |->
                       IF ctx.scroll_target = {i - 1}
                       THEN vec2(Scrolls(ctx)[i].x + ctx.scroll_delta.x,
                                 Scrolls(ctx)[i].y + ctx.scroll_delta.y)
                       ELSE Scrolls(ctx)[i]]]_vars

\* The wheel was turned, and the window was begun with scrollbars, its
\* content overflowing, under the pointer.
C19_Witness ==
    /\ phase = "frame" /\ last.op = "begin_window" /\ "NoScroll" \notin last.opts
    /\ ctx.scroll_delta # Vec2ZERO
    /\ ctx.hover_root = SlotOf("A")
    /\ SlotOf("A") # {}
    /\ overlaps(At(ctx.containers, The(SlotOf("A"))).body, ctx.mouse_pos)
    /\ At(ctx.containers, The(SlotOf("A"))).content_size.y + 2 * StylePadding
          > At(ctx.containers, The(SlotOf("A"))).body.h

\* ------------------------------------------------------------------------
\* Properties of the layout (SpecLayout)
\* ------------------------------------------------------------------------
\* The layout on top of the stack, before and after the step.
TopLayout == Last(ctx.layout_stack)

\* layout_next is called while the row set by layout_row(&[100, -1], 0)
\* is in force; there was no indent when the row was set (the cursor began
\* at x = 0) and there is none now.
RowStep ==
    /\ phase = "frame"
    /\ last'.op = "layout_next"
    /\ Ok(ctx')
    /\ Len(ctx.layout_stack) > 0
    /\ TopLayout.next_type = {}
    /\ TopLayout.items = 2
    /\ At(TopLayout.widths, 0) = 100 /\ At(TopLayout.widths, 1) = -1
    /\ TopLayout.size.y = 0
    /\ TopLayout.indent = 0
    /\ TopLayout.item_index = 0 => TopLayout.pos.x = 0
    /\ TopLayout.item_index = 1 => TopLayout.pos.x = 100 + StyleSpacing

RowHeight == StyleSizeY + 2 * StylePadding

\* C20: in the row [100, -1] of default height, with no indent, the first
\* cell is 100 wide at the start of the row; the second is placed one
\* spacing to its right, is body.w - 100 - spacing wide and ends at the
\* right edge of the body; the third is in a new row, at the start of the
\* row, one row height and one spacing below the first row, and 100 wide.
C20_RowFillsAndWraps ==
    [][RowStep =>
          /\ TopLayout.item_index = 0 =>
                /\ ctx'.last_rect.w = 100
                /\ ctx'.last_rect.x = TopLayout.body.x
                /\ ctx'.last_rect.y = TopLayout.body.y + TopLayout.pos.y
          /\ TopLayout.item_index = 1 =>
                /\ ctx'.last_rect.w = TopLayout.body.w - 100 - StyleSpacing
                /\ ctx'.last_rect.x = TopLayout.body.x + 100 + StyleSpacing
                /\ ctx'.last_rect.x + ctx'.last_rect.w
                      = TopLayout.body.x + TopLayout.body.w
                /\ ctx'.last_rect.y = TopLayout.body.y + TopLayout.pos.y
          /\ TopLayout.item_index = 2 =>
                /\ ctx'.last_rect.w = 100
                /\ ctx'.last_rect.x = TopLayout.body.x
                /\ ctx'.last_rect.y =
                      TopLayout.body.y + TopLayout.pos.y + RowHeight + StyleSpacing]_vars

\* begin_window, layout_row(&[100, -1], 0) and three layout_next were the
\* five calls of the frame: the second cell reached the right edge of the
\* body and the third, 100 wide, is in the second row.
C20_Witness ==
    /\ phase = "frame" /\ last.op = "layout_next" /\ calls = 5
    /\ declared = {}
    /\ Len(ctx.layout_stack) > 0
    /\ TopLayout.items = 2 /\ TopLayout.item_index = 1
    /\ At(TopLayout.widths, 0) = 100 /\ At(TopLayout.widths, 1) = -1
    /\ TopLayout.indent = 0
    /\ TopLayout.pos.y = RowHeight + StyleSpacing
    /\ TopLayout.max.x = TopLayout.body.x + TopLayout.body.w
    /\ ctx.last_rect.w = 100

\* ------------------------------------------------------------------------
\* Properties of identifiers (SpecId)
\* ------------------------------------------------------------------------
\* A create_id call of the application that returned.
IdStep == phase = "frame" /\ last'.op = "create_id" /\ Ok(ctx')

\* The identifier create_id gives the key of the step in the Context c
\* whose identifier stack is stack.
IdUnder(c, stack) == create_id([c EXCEPT !.id_stack = stack], last'.arg).last_id

\* The identifier stacks of one window.
WindowStacks == {<<IdNew(t, 0)>> : t \in {"A", "B"}}

\* C21: the key created in a window gets an identifier other than the one
\* the same key gets in another window, at the same depth of the
\* identifier stack.
C21_IdSeededByEnclosing ==
    [][(IdStep /\ ctx.id_stack \in WindowStacks) =>
          \A stack \in WindowStacks \ {ctx.id_stack} :
              IdUnder(ctx, stack) # ctx'.last_id]_vars

\* An identifier has been created in a window.
C21_Witness ==
    /\ phase = "frame" /\ last.op = "create_id"
    /\ ctx.id_stack \in WindowStacks

\* C22: create_id changes nothing but last_id, and the identifier it gives
\* a key is the one it gives the key in a new Context with the same
\* identifier stack: the frame, the pools, hover and focus and the command
\* list do not matter.
C22_IdDeterministic ==
    [][IdStep =>
          /\ ctx' = [ctx EXCEPT !.last_id = ctx'.last_id]
          /\ ctx'.last_id = IdUnder(ContextNew, ctx.id_stack)
          /\ ctx'.last_id # {}]_vars

\* An identifier has been created in the second frame, in a tree node, with
\* a hover root and commands in the list.
C22_Witness ==
    /\ phase = "frame" /\ last.op = "create_id"
    /\ ctx.frame = 2 /\ Len(ctx.id_stack) = 2
    /\ ctx.hover_root # {} /\ Len(ctx.command_list) > 0

\* ------------------------------------------------------------------------
\* Properties of the text buffer (SpecStr)
\* ------------------------------------------------------------------------
\* The length of the character that begins with the byte b (RFC 3629).
CharLen(b) == IF b < 128 THEN 1 ELSE IF b < 224 THEN 2 ELSE IF b < 240 THEN 3 ELSE 4

\* The characters of a sequence of bytes; a sequence that ends within a
\* character, or begins with a continuation byte, has the character <<>>
\* at that place.
RECURSIVE Chars(_)
Chars(bytes) ==
    IF bytes = <<>> THEN <<>>
    ELSE IF (bytes[1] >= 128 /\ bytes[1] < 192) \/ CharLen(bytes[1]) > Len(bytes)
    THEN <<<<>>>>
    ELSE <<SubSeq(bytes, 1, CharLen(bytes[1]))>>
            \o Chars(SubSeq(bytes, CharLen(bytes[1]) + 1, Len(bytes)))

ValidUtf8(bytes) == \A i \in 1..Len(Chars(bytes)) : Chars(bytes)[i] # <<>>

\* The longest prefix of whole characters of chars that has at most free
\* bytes.
RECURSIVE WholeFit(_, _)
WholeFit(chars, free) ==
    IF chars = <<>> \/ Len(Head(chars)) > free THEN <<>>
    ELSE <<Head(chars)>> \o WholeFit(Tail(chars), free - Len(Head(chars)))

FreeBytes == StrCapacity - Len(buf.bytes)

C24_WriteStrAllOrNothing ==
    [][last'.op = "write_str" =>
          IF Len(Flatten(last'.text)) > FreeBytes
          THEN buf'.err /\ buf'.bytes = buf.bytes
          ELSE ~buf'.err /\ buf'.bytes = buf.bytes \o Flatten(last'.text)]_vars

\* write_str answered Err for a text of which a whole character would
\* have fitted.
C24_Witness ==
    /\ last.op = "write_str" /\ buf.err
    /\ Len(last.text) > 1
    /\ Len(last.text[1]) <= StrCapacity - Len(buf.bytes)

\* C25: pop_char on an empty buffer changes nothing; otherwise it takes
\* exactly the last character, of 1 to 4 bytes, and leaves valid UTF-8;
\* after a push_str of one character that fitted it gives the content of
\* before the push_str.
C25_PopCharTakesLastChar ==
    [][last'.op = "pop_char" =>
          /\ buf.bytes = <<>> => buf'.bytes = <<>>
          /\ buf.bytes # <<>> =>
                /\ Chars(buf'.bytes) = SubSeq(Chars(buf.bytes), 1, Len(Chars(buf.bytes)) - 1)
                /\ buf.bytes = buf'.bytes \o Chars(buf.bytes)[Len(Chars(buf.bytes))]
                /\ Len(buf.bytes) - Len(buf'.bytes) \in 1..4
                /\ ValidUtf8(buf'.bytes)
          /\ (last.op = "push_str" /\ Len(last.text) = 1 /\ buf.ret = Len(last.text[1]))
                => buf'.bytes = buf.before]_vars

\* pop_char took a character of 4 bytes from behind another character.
C25_Witness ==
    /\ last.op = "pop_char"
    /\ Len(buf.before) - Len(buf.bytes) = 4
    /\ buf.bytes # <<>>

\* ------------------------------------------------------------------------
\* Properties of the z-index (SpecPool, SpecInput)
\* ------------------------------------------------------------------------
\* A step that names a container, and the identifier it names.
NamingStep ==
    /\ phase = "frame"
    /\ last'.op \in {"begin_window", "begin_panel", "open_popup"}

StepId == IdNew(last'.arg, Len(ctx.id_stack))

\* get_container_impl makes a new container in that step: the identifier is
\* not in the pool and a slot can be taken.
Creates ==
    /\ find_by_id(ctx.container_pool, StepId) = {}
    /\ "Closed" \notin last'.opts
    /\ PoolInitIndex(ctx.container_pool, ctx.frame) # {}

\* The Context that get_container_impl leaves, and the slot it took.
Created == get_container_impl(ctx, StepId, last'.opts)
CreatedSlot == The(find_by_id(Created.container_pool, StepId))

\* The container in slot i is above all the others.
Above(c, i) ==
    \A j \in 0..(CONTAINER_POOL_SIZE - 1) :
        j # i => At(c.containers, j).zindex < At(c.containers, i).zindex

\* last_zindex bounds every z-index and no two containers in use share one.
InUse(c, i) == At(c.container_pool, i).id # IdDefault
DistinctZ(c) ==
    /\ \A i \in 0..(CONTAINER_POOL_SIZE - 1) : At(c.containers, i).zindex <= c.last_zindex
    /\ \A i, j \in 0..(CONTAINER_POOL_SIZE - 1) :
          (i # j /\ InUse(c, i) /\ InUse(c, j))
              => At(c.containers, i).zindex # At(c.containers, j).zindex

\* C26: a container that get_container_impl creates, in a free or in an
\* evicted slot, is open and has the z-index last_zindex + 1, above every
\* other container, and it is still above every other when the call that
\* named it returns; last_zindex never decreases, bounds every z-index,
\* and no two containers in use share a z-index.
C26_FreshContainerOnTop ==
    [][/\ (NamingStep /\ Creates) =>
             /\ At(Created.containers, CreatedSlot).open
             /\ At(Created.containers, CreatedSlot).zindex = ctx.last_zindex + 1
             /\ Above(Created, CreatedSlot)
             /\ Ok(ctx') => Above(ctx', CreatedSlot)
       /\ ctx'.last_zindex >= ctx.last_zindex
       /\ DistinctZ(ctx')]_vars

\* A container was created in a slot taken from another container, while
\* two other containers are in use.
C26_Witness ==
    /\ phase = "frame" /\ ctx.frame = 2
    /\ last.op \in {"begin_window", "begin_panel", "open_popup"}
    /\ \E i \in 0..(CONTAINER_POOL_SIZE - 1) :
          /\ At(ctx.container_pool, i).id = IdNew(last.arg, Len(ctx.id_stack) - 1)
             \/ At(ctx.container_pool, i).id = IdNew(last.arg, Len(ctx.id_stack))
          /\ At(ctx.containers, i).zindex = ctx.last_zindex
          /\ ctx.last_zindex > CONTAINER_POOL_SIZE
    /\ last.op = "begin_panel"
    /\ \A j \in 0..(CONTAINER_POOL_SIZE - 1) :
          /\ InUse(ctx, j)
          /\ At(ctx.container_pool, j).id.key # "M"

\* C27: when a button was pressed before the frame and the hover root
\* candidate at end() is below the highest z-index, end() puts it one above
\* the highest z-index and changes no other z-index; no call between
\* begin() and end() changes the z-index of a container in use.
ZIndexes(c) == [i \in 0..(CONTAINER_POOL_SIZE - 1) |-> At(c.containers, i).zindex]

C27_PressBringsToFront ==
    [][/\ (/\ phase = "frame" /\ last'.op = "end" /\ Ok(ctx')
           /\ pressed # {}
           /\ ctx.next_hover_root # {}
           /\ ZIndexes(ctx)[The(ctx.next_hover_root)] < ctx.last_zindex) =>
             ZIndexes(ctx') =
                 [ZIndexes(ctx) EXCEPT ![The(ctx.next_hover_root)] = ctx.last_zindex + 1]
       /\ (phase = "frame" /\ phase' = "frame" /\ pressed # {}) =>
             \A i \in 0..(CONTAINER_POOL_SIZE - 1) :
                 InUse(ctx, i) => ZIndexes(ctx')[i] = ZIndexes(ctx)[i]]_vars

\* A frame begun after a press has declared its windows, and the hover
\* root candidate is not the topmost container.
C27_Witness ==
    /\ phase = "frame" /\ pressed # {}
    /\ Len(ctx.container_stack) = 0
    /\ ctx.next_hover_root # {}
    /\ ZIndexes(ctx)[The(ctx.next_hover_root)] < ctx.last_zindex

\* ------------------------------------------------------------------------
\* Properties of the splice of end() (SpecPool, SpecDraw)
\* ------------------------------------------------------------------------
\* The roots of c are in ascending z-index order and their Jumps are
\* chained in that order: the first command jumps into the first root, the
\* tail of each root into the next, the tail of the last to the end.
Chained(c) ==
    /\ \A i \in 0..(Len(c.root_list) - 2) :
          ZOf(c, At(c.root_list, i)) < ZOf(c, At(c.root_list, i + 1))
    /\ Len(c.root_list) > 0 =>
          /\ At(c.command_list, 0) = Jump(HeadOf(c, At(c.root_list, 0)) + 1)
          /\ \A i \in 0..(Len(c.root_list) - 2) :
                At(c.command_list, TailOf(c, At(c.root_list, i))) =
                    Jump(HeadOf(c, At(c.root_list, i + 1)) + 1)
          /\ At(c.command_list, TailOf(c, At(c.root_list, Len(c.root_list) - 1))) =
                Jump(Len(c.command_list))

\* C28: an end() that passes its assertions, in a frame whose commands all
\* lie in root containers, does not panic and leaves the Jumps chained in
\* ascending z-index order, whatever slots the containers have.
C28_JumpsChainedInZOrder ==
    [][(/\ phase = "frame" /\ last'.op = "end"
        /\ EndAsserts(ctx)
        /\ Len(ctx.command_list) > 0 => At(ctx.command_list, 0).type = "Jump")
           => (Ok(ctx') /\ Chained(ctx'))]_vars

\* A frame has ended with two roots whose slots are not neighbours.
C28_Witness ==
    /\ phase \in {"ended", "panic"} /\ last.op = "end"
    /\ Len(ctx.root_list) = 2
    /\ At(ctx.root_list, 1) - At(ctx.root_list, 0) # 1

\* ------------------------------------------------------------------------
\* Properties of the sort of end() (SpecSort)
\* ------------------------------------------------------------------------
\* The orderings of the root list of c that a stable sort on the z-index
\* gives: ascending, and roots of equal z-index in the order of the list.
StableRootLists(c) ==
    {[i \in 1..Len(c.root_list) |-> c.root_list[p[i]]] : p \in
        {q \in RootOrders(Len(c.root_list)) :
            \A i, j \in 1..Len(c.root_list) :
                i < j =>
                    \/ ZOf(c, c.root_list[q[i]]) < ZOf(c, c.root_list[q[j]])
                    \/ /\ ZOf(c, c.root_list[q[i]]) = ZOf(c, c.root_list[q[j]])
                       /\ q[i] < q[j]}}

FrameStep == phase = "frame" /\ phase' = "frame" /\ Ok(ctx')

\* The call begins a root container / ends the root container on top of the
\* container stack.
OpensRoot == FrameStep /\ Len(ctx'.root_list) = Len(ctx.root_list) + 1
ClosesRoot == FrameStep /\ last'.op \in {"end_window", "end_popup"}

\* The commands of before are still there, in their places; of a Jump only
\* the target may differ.
Kept(before, after) ==
    /\ Len(after) >= Len(before)
    /\ \A i \in 1..Len(before) :
          \/ after[i] = before[i]
          \/ after[i].type = "Jump" /\ before[i].type = "Jump"

\* C30: the head of a root container is a Jump pushed before every other
\* command of its begin call; while the container is open its head stays;
\* its tail is a Jump pushed after every command appended before its end
\* call, so that head < tail and all commands appended from the begin to
\* the end call lie strictly between them; after the end call the head
\* Jump targets tail + 1; and no call of the frame, end() included, removes
\* or reorders a command: it only rewrites the target of a Jump.
C30_HeadAndTailEncloseCommands ==
    [][/\ OpensRoot =>
             /\ HeadOf(ctx', Last(ctx'.root_list)) = Len(ctx.command_list)
             /\ At(ctx'.command_list, Len(ctx.command_list)) = Jump(0)
             /\ Last(ctx'.container_stack) = Last(ctx'.root_list)
       /\ FrameStep =>
             \A i \in 1..Len(ctx.container_stack) :
                 i <= Len(ctx'.container_stack) =>
                     At(ctx'.containers, ctx.container_stack[i]).head =
                         At(ctx.containers, ctx.container_stack[i]).head
       /\ ClosesRoot =>
             /\ HeadOf(ctx', Last(ctx.container_stack)) < Len(ctx.command_list)
             /\ TailOf(ctx', Last(ctx.container_stack)) = Len(ctx.command_list)
             /\ Len(ctx'.command_list) = Len(ctx.command_list) + 1
             /\ At(ctx'.command_list, TailOf(ctx', Last(ctx.container_stack))) = Jump(0)
             /\ At(ctx'.command_list, HeadOf(ctx', Last(ctx.container_stack))) =
                    Jump(TailOf(ctx', Last(ctx.container_stack)) + 1)
       /\ (phase = "frame" /\ Ok(ctx')) => Kept(ctx.command_list, ctx'.command_list)]_vars

\* A popup begun in a window was closed with commands between its head and
\* its tail, the window still being open.
C30_Witness ==
    /\ phase = "frame" /\ last.op = "end_popup"
    /\ Len(ctx.container_stack) = 1
    /\ \E i \in 0..(CONTAINER_POOL_SIZE - 1) :
          /\ At(ctx.containers, i).tail = {Len(ctx.command_list) - 1}
          /\ At(ctx.containers, i).head # {}
          /\ HeadOf(ctx, i) > HeadOf(ctx, Last(ctx.container_stack))
          /\ HeadOf(ctx, i) + 1 < TailOf(ctx, i)

\* ------------------------------------------------------------------------
\* Properties of the pool (SpecLru, SpecPool)
\* ------------------------------------------------------------------------
\* The slots of pool not touched in frame, and the one init must take: the
\* oldest of them, the lowest of the oldest.
Stale(pool, frame) == {i \in 0..(Len(pool) - 1) : At(pool, i).last_update < frame}
Oldest(pool, frame) ==
    CHOOSE i \in Stale(pool, frame) :
        \A j \in Stale(pool, frame) :
            \/ At(pool, i).last_update < At(pool, j).last_update
            \/ At(pool, i).last_update = At(pool, j).last_update /\ i <= j

\* Each slot was touched in a frame of its own, the frames 1 .. N.
OnePerFrame(pool) ==
    \A f \in 1..Len(pool) : \E i \in 0..(Len(pool) - 1) : At(pool, i).last_update = f

\* C31: init leaves the pool as it is when every slot was touched in this
\* frame; otherwise it gives the oldest slot not touched in this frame, the
\* lowest of them on a tie, the identifier and the number of the frame and
\* changes no other slot; after one request in each of the frames 1 .. N
\* the request in frame N + 1 takes the slot of the first request.
C31_InitEvictsOldest ==
    [][(phase = "frame" /\ last'.op = "init_container_pool") =>
          /\ Stale(ctx.container_pool, ctx.frame) = {} =>
                ctx'.container_pool = ctx.container_pool
          /\ Stale(ctx.container_pool, ctx.frame) # {} =>
                ctx'.container_pool =
                    Put(ctx.container_pool, Oldest(ctx.container_pool, ctx.frame),
                        [id |-> IdNew(last'.arg, 0), last_update |-> ctx.frame])
          /\ (OnePerFrame(ctx.container_pool) /\ ctx.frame = CONTAINER_POOL_SIZE + 1) =>
                \E i \in 0..(CONTAINER_POOL_SIZE - 1) :
                    /\ At(ctx.container_pool, i).last_update = 1
                    /\ At(ctx'.container_pool, i).last_update = ctx.frame]_vars

\* The request of frame N + 1 has taken the slot last touched in frame 1,
\* which is not the first slot, the others being touched in frames 3 and 2.
C31_Witness ==
    /\ last.op = "init_container_pool" /\ ctx.frame = CONTAINER_POOL_SIZE + 1
    /\ calls = 1
    /\ At(ctx.container_pool, 0).last_update = 3
    /\ At(ctx.container_pool, 1).last_update = ctx.frame
    /\ At(ctx.container_pool, 1).id = IdNew(last.arg, 0)
    /\ At(ctx.container_pool, 2).last_update = 2

\* ------------------------------------------------------------------------
\* Properties of the lookup of a container (SpecLookup)
\* ------------------------------------------------------------------------
\* The application looks up a name that has a slot.
LookupStep ==
    /\ phase = "frame" /\ last'.op = "container_index_by_name"
    /\ find_by_id(ctx.container_pool, StepId) # {}

FoundSlot == The(find_by_id(ctx.container_pool, StepId))

\* C32: the lookup of an identifier that has a slot answers that slot,
\* changes no container and no other slot of the pool, and stamps the slot
\* with the current frame exactly if the container is open or Closed was
\* not passed; otherwise the slot keeps its timestamp.
C32_LookupKeepsContainer ==
    [][LookupStep =>
          /\ GetContainerIndex(ctx, StepId, last'.opts) = {FoundSlot}
          /\ ctx'.containers = ctx.containers
          /\ ctx'.last_zindex = ctx.last_zindex
          /\ ctx'.container_pool =
                Put(ctx.container_pool, FoundSlot,
                    [id |-> StepId,
                     last_update |->
                        IF At(ctx.containers, FoundSlot).open \/ "Closed" \notin last'.opts
                        THEN ctx.frame
                        ELSE At(ctx.container_pool, FoundSlot).last_update])]_vars

\* A closed container was looked up with Closed in a later frame than it
\* was last touched in, and kept its timestamp.
C32_Witness ==
    /\ phase = "frame" /\ last.op = "container_index_by_name"
    /\ "Closed" \in last.opts
    /\ \E i \in 0..(CONTAINER_POOL_SIZE - 1) :
          /\ At(ctx.container_pool, i).id = IdNew(last.arg, 0)
          /\ ~At(ctx.containers, i).open
          /\ At(ctx.container_pool, i).last_update < ctx.frame
          /\ At(ctx.container_pool, i).last_update > 0

\* ------------------------------------------------------------------------
\* Properties of the hover root (SpecHover)
\* ------------------------------------------------------------------------
\* The roots declared in this frame whose rect held the pointer when they
\* were begun, by their slots, and the topmost of them.
UnderPointer ==
    {The(find_by_id(ctx.container_pool, d.id)) :
        d \in {e \in declared : overlaps(e.rect, ctx.mouse_pos)}}
TopUnderPointer ==
    {i \in UnderPointer : \A j \in UnderPointer : ZOf(ctx, j) <= ZOf(ctx, i)}

\* C33: when a frame ends the hover-root candidate is the topmost of the
\* roots that were under the pointer when they were begun, none if there
\* is no such root; begin() makes the candidate the hover root and leaves
\* no candidate.
C33_HoverRootIsTopmost ==
    [][/\ (phase = "frame" /\ last'.op = "end" /\ Ok(ctx')) =>
             ctx'.next_hover_root = TopUnderPointer
       /\ last'.op = "begin" =>
             /\ ctx'.hover_root = ctx.next_hover_root
             /\ ctx'.next_hover_root = {}]_vars

\* In the frame after one in which the pointer was in both windows the
\* hover root is the upper window.
C33_Witness ==
    /\ phase = "frame" /\ last.op = "begin" /\ ctx.frame > 1
    /\ overlaps(RectA, ctx.mouse_pos) /\ overlaps(RectB, ctx.mouse_pos)
    /\ ctx.hover_root # {}
    /\ Len(ctx.root_list) = 0
    /\ ZOf(ctx, The(ctx.hover_root)) = ctx.last_zindex
    /\ ctx.last_zindex = 2
    /\ ctx.hover_root = {1}

\* ------------------------------------------------------------------------
\* Properties of a column (SpecColumn)
\* ------------------------------------------------------------------------
\* The layout under the top one: the parent of a column.
Parent(c) == c.layout_stack[Len(c.layout_stack) - 1]

\* C34: layout_begin_column pushes a layout whose body is the next cell of
\* the parent; layout_end_column pops it and leaves the parent with an
\* extent at least its own and at least the column's in both directions,
\* and with a next row at or below the next row of the column and below
\* everything laid out in the column, in the coordinates of the parent.
C34_ColumnMergedIntoParent ==
    [][/\ (phase = "frame" /\ last'.op = "layout_begin_column" /\ Ok(ctx')) =>
             /\ Len(ctx'.layout_stack) = Len(ctx.layout_stack) + 1
             /\ Last(ctx'.layout_stack).body = layout_next(ctx).last_rect
             /\ Parent(ctx') = Last(layout_next(ctx).layout_stack)
       /\ (phase = "frame" /\ last'.op = "layout_end_column" /\ Ok(ctx')) =>
             /\ Len(ctx'.layout_stack) = Len(ctx.layout_stack) - 1
             /\ Last(ctx'.layout_stack).max.x >= Parent(ctx).max.x
             /\ Last(ctx'.layout_stack).max.y >= Parent(ctx).max.y
             /\ Last(ctx'.layout_stack).max.x >= TopLayout.max.x
             /\ Last(ctx'.layout_stack).max.y >= TopLayout.max.y
             /\ Last(ctx'.layout_stack).next_row >= Parent(ctx).next_row
             /\ Last(ctx'.layout_stack).next_row + Parent(ctx).body.y >=
                    TopLayout.next_row + TopLayout.body.y
             /\ Last(ctx'.layout_stack).next_row + Parent(ctx).body.y >= TopLayout.max.y
             /\ Last(ctx'.layout_stack).body = Parent(ctx).body]_vars

\* A column begun first in the window, in which two cells were laid out,
\* has been ended: the next row of the window is below the two cells.
C34_Witness ==
    /\ phase = "frame" /\ last.op = "layout_end_column"
    /\ Len(ctx.layout_stack) = 1
    /\ calls = 5
    /\ TopLayout.item_index = 1 /\ TopLayout.items = 1 /\ TopLayout.size.y = 0
    /\ TopLayout.pos.y = 0
    /\ TopLayout.next_row = 2 * (StyleSizeY + 2 * StylePadding + StyleSpacing)
    /\ TopLayout.max.y = TopLayout.body.y + TopLayout.next_row - StyleSpacing

\* ------------------------------------------------------------------------
\* Properties of handle_commands (SpecSkip)
\* ------------------------------------------------------------------------
\* C35: handle_commands called after an end() that returned comes back: it
\* is not caught in a cycle of Jumps; and it leaves the command list
\* empty, so that a second call hands nothing to the handler.
C35_HandleCommandsTerminates ==
    [][(phase = "ended" /\ last'.op = "handle_commands") =>
          /\ Handled(ctx).stop # "cycle"
          /\ phase' # "hang"
          /\ ctx'.command_list = <<>>
          /\ Handled(ctx').out = <<>>]_vars

\* handle_commands was called after a frame that declared two of the
\* three windows of the frame before.
C35_Witness ==
    /\ last.op = "handle_commands" /\ ctx.frame = 2
    /\ Len(ctx.root_list) = 2
    /\ \A i \in 0..2 : At(ctx.container_pool, i).id # IdDefault

\* ------------------------------------------------------------------------
\* Properties of the lifetime of the focus
\* ------------------------------------------------------------------------
EndStep == phase = "frame" /\ last'.op = "end"
FocusIds == {IdNew("X", 1), IdNew("Y", 1)}

\* C36 as stated: if X is focused when a frame begins and update_widget(X)
\* is not called in that frame (set_focus is called between frames only),
\* no identifier is focused after end().
C36_UndeclaredFocusDropped ==
    [][EndStep =>
          \A x \in FocusIds :
              (focus0 = {x} /\ x \notin DeclaredIds) => ctx'.focus_id = {}]_vars

\* C36, amended: if X is focused when a frame begins, set_focus was not
\* called since the previous end() and update_widget(X) is not called in
\* the frame, no identifier is focused after end(); if set_focus was
\* called since the previous end(), or update_widget(X) was called, and X
\* is focused when end() is called, X is still focused after end().
C36_FocusLifetime ==
    [][EndStep =>
          \A x \in FocusIds :
              focus0 = {x} =>
                  /\ (x \notin DeclaredIds /\ ~updated0) => ctx'.focus_id = {}
                  /\ ((x \in DeclaredIds \/ updated0) /\ ctx.focus_id = {x})
                         => ctx'.focus_id = {x}]_vars

\* X was focused when the frame began, the focus was not set since the
\* last end(), X was not declared, and end() has dropped the focus.
C36_Witness ==
    /\ last.op = "end" /\ phase = "ended"
    /\ focus0 = {IdNew("X", 1)} /\ ~updated0
    /\ IdNew("X", 1) \notin DeclaredIds /\ IdNew("Y", 1) \in DeclaredIds
    /\ ctx.focus_id = {}

\* X was given the focus before begin(), was not declared, and is still
\* focused after end().
C36_FocusOutlivesWidget ==
    /\ last.op = "end" /\ phase = "ended"
    /\ focus0 = {IdNew("X", 1)} /\ updated0
    /\ IdNew("X", 1) \notin DeclaredIds
    /\ ctx.focus_id = {IdNew("X", 1)}

\* ------------------------------------------------------------------------
\* Properties of a refused begin_window
\* ------------------------------------------------------------------------
BeginRootStep == phase = "frame" /\ last'.op \in {"begin_window", "begin_popup"}

\* The container the call is about is in the pool and closed.
ClosedBefore ==
    /\ find_by_id(ctx.container_pool, StepId) # {}
    /\ ~At(ctx.containers, The(find_by_id(ctx.container_pool, StepId))).open

\* The call finds no container and cannot make one.
NoSlotBefore ==
    /\ find_by_id(ctx.container_pool, StepId) = {}
    /\ ("Closed" \in last'.opts \/ PoolInitIndex(ctx.container_pool, ctx.frame) = {})

StacksAndListsKept ==
    /\ ctx'.id_stack = ctx.id_stack
    /\ ctx'.container_stack = ctx.container_stack
    /\ ctx'.clip_stack = ctx.clip_stack
    /\ ctx'.layout_stack = ctx.layout_stack
    /\ ctx'.command_list = ctx.command_list
    /\ ctx'.root_list = ctx.root_list

\* C37: begin_window and begin_popup return false exactly when the
\* container is closed, was never opened or has no pool slot; a call that
\* returns false leaves the identifier, container, clip and layout stacks,
\* the command list and the root list as they were; and the open flag of a
\* closed container in the pool is only set again by the application (or by
\* open_popup), so a closed window contributes nothing until then.
C37_RefusedBeginLeavesNoTrace ==
    [][/\ BeginRootStep =>
            /\ Ok(ctx')
            /\ ~ctx'.ret <=> (ClosedBefore \/ NoSlotBefore)
            /\ ~ctx'.ret => StacksAndListsKept
        /\ \A i \in 0..(CONTAINER_POOL_SIZE - 1) :
              (/\ ~At(ctx.containers, i).open /\ At(ctx'.containers, i).open
               /\ At(ctx'.container_pool, i).id = At(ctx.container_pool, i).id
               /\ At(ctx.container_pool, i).id # IdDefault)
                 => last'.op \in {"get_container_mut", "open_popup"}]_vars

\* Window A, closed by a click on its close button in an earlier frame, has
\* been declared again with B before it, and the call returned false.
C37_Witness ==
    /\ phase = "frame" /\ last.op = "begin_window" /\ last.arg = "A"
    /\ ~ctx.ret
    /\ SlotOfA # {} /\ ~At(ctx.containers, The(SlotOfA)).open
    /\ ctx.root_list = <<>> /\ ctx.command_list = <<>>
    /\ ctx.frame = 3

\* ------------------------------------------------------------------------
\* Properties of nested blocks
\* ------------------------------------------------------------------------
EndOf(op) ==
    CASE op = "begin_window" -> "end_window"
      [] op = "begin_popup" -> "end_popup"
      [] op = "begin_panel" -> "end_panel"
      [] op = "begin_treenode" -> "end_treenode"
      [] op = "layout_begin_column" -> "layout_end_column"
      [] OTHER -> "none"

\* The innermost open block is ended by its own end call.
MatchedEndStep ==
    /\ phase = "frame" /\ blocks # <<>>
    /\ last'.op = EndOf(Last(blocks).op)

\* The stacks and the indent are what they were before the block was begun.
Restored(c, b) ==
    /\ Len(c.id_stack) = b.ids
    /\ Len(c.container_stack) = b.containers
    /\ Len(c.clip_stack) = b.clips
    /\ Len(c.layout_stack) = b.layouts
    /\ b.layouts > 0 => Last(c.layout_stack).indent = b.indent

\* C38: the end call of the innermost open block, when it returns, restores
\* the depths of the identifier, container, clip and layout stacks and the
\* indent of the layout to what they were before its begin call; so when
\* end() is called with every block ended and no container request
\* refused, the four stacks are empty and the assertions of end() pass.
C38_BalancedFrameEndsClean ==
    [][/\ (MatchedEndStep /\ Ok(ctx')) => Restored(ctx', Last(blocks))
       /\ (EndStep /\ blocks = <<>>)
             => (EndAsserts(ctx) /\ ctx'.panic # "assertion failed: stack not empty at end()")]_vars

\* end() has been called after a frame in which four blocks were begun and
\* ended, a window, a panel in it and a tree node in the panel among them,
\* and it returned.
C38_Witness ==
    /\ phase = "ended" /\ last.op = "end" /\ blocks = <<>>
    /\ calls = 8
    /\ Len(ctx.root_list) = 1
    /\ \E i \in 0..(CONTAINER_POOL_SIZE - 1) :
          At(ctx.container_pool, i).id = IdNew("P", 1)
    /\ IdNew("T", 2) \in DeclaredIds

\* ------------------------------------------------------------------------
\* Properties of the layout of a container
\* ------------------------------------------------------------------------
\* The container on top of the container stack.
TopContainer(c) == At(c.containers, Last(c.container_stack))

\* C39: the layout pushed for a container begun is the container body
\* shrunk by the padding and moved by the scroll offset axis by axis: its
\* x origin is body.x + padding - scroll.x and its y origin is
\* body.y + padding - scroll.y.
C39_LayoutScrolledPerAxis ==
    [][(phase = "frame" /\ last'.op = "begin_window" /\ Ok(ctx') /\ ctx'.ret) =>
          /\ Last(ctx'.layout_stack).body.x =
                TopContainer(ctx').body.x + StylePadding - TopContainer(ctx').scroll.x
          /\ Last(ctx'.layout_stack).body.y =
                TopContainer(ctx').body.y + StylePadding - TopContainer(ctx').scroll.y]_vars

\* Window A has been begun with a vertical scroll offset and no horizontal
\* one.
C39_Witness ==
    /\ phase = "frame" /\ last.op = "begin_window" /\ ctx.ret
    /\ TopContainer(ctx).scroll = vec2(0, 30)

\* ------------------------------------------------------------------------
\* Properties of a click on a header
\* ------------------------------------------------------------------------
\* The header of that step is under the pointer, it was hovered in the last
\* frame, and Left was pressed since.
Clicked ==
    /\ ctx.hover_id = {StepId}
    /\ "Left" \in pressed

\* The identifier of the header of that step is in the treenode pool after
\* the call.
InTreenodePoolAfter == find_by_id(ctx'.treenode_pool, StepId) # {}

\* C40: a header reports the state its pool entry gives it (open without
\* an entry when Expanded is set, closed without one otherwise); a click
\* on it reverses the entry, when the pool has a slot for it, so that the
\* next frame reports the negated state; without a click the entry, and so
\* the state reported in the next frame, stays as it is.
C40_ClickTogglesHeader ==
    [][TreeStep =>
          /\ ctx'.resp.active <=> (InTreenodePool # ("Expanded" \in last'.opts))
          /\ (Clicked /\ (InTreenodePool
                             \/ PoolInitIndex(ctx.treenode_pool, ctx.frame) # {}))
                => (InTreenodePoolAfter <=> ~InTreenodePool)
          /\ ~Clicked => (InTreenodePoolAfter <=> InTreenodePool)]_vars

\* The header H, hovered in the frame before, has been declared in the
\* frame after a press of Left on it.
C40_Witness ==
    /\ phase = "frame" /\ last.op = "header"
    /\ "Left" \in pressed /\ "Left" \in ctx.mouse_down
    /\ ctx.mouse_pos = PosInside
    /\ ctx.hover_id = {IdNew("H", 1)}

====
